---- MODULE Spec2Model ----
(***************************************************************************)
(* Backtracking CSP solver (MRV, forward checking, AC-3) of                *)
(* src/src/csp/solver_core.py over the CSP container of                    *)
(* src/src/csp/model.py, with the tracer of src/src/utils/trace.py.        *)
(*                                                                         *)
(* Python objects that are mutated in place (the domain maps) live in a    *)
(* heap of domain maps; a reference is an index into it.  heap[1] is the   *)
(* CSP's canonical map csp.domains.  The iteration order of each           *)
(* variable's neighbor set (a Python set of str, whose order depends on    *)
(* the process's hash seed) is fixed when the CSP is built and is any      *)
(* permutation of the set.                                                 *)
(***************************************************************************)
EXTENDS Integers, Sequences, FiniteSets, TLC

VARIABLES csp, heap, stack, pc, ac3, tracer, result, run, first,
          puzzle, raised, call

vars == <<csp, heap, stack, pc, ac3, tracer, result, run, first,
          puzzle, raised, call>>

\* Domain values are 1..MaxVal.
MaxVal == 3
\* A CSP of the input family has at most MaxCons constraints.
MaxCons == 2

\* Optional[T]: None is the empty tuple, a present value a 1-tuple.
None == <<>>
Some(x) == <<x>>

Range(s) == {s[i] : i \in DOMAIN s}

RECURSIVE SetToSeqs(_)
\* Every ordering of a finite set.
SetToSeqs(S) ==
  IF S = {} THEN {<<>>}
  ELSE UNION {{<<x>> \o t : t \in SetToSeqs(S \ {x})} : x \in S}

(***************************************************************************)
(* Strings and their order.                                                *)
(***************************************************************************)

\* Code point of each one-letter variable name (Python compares str by
\* code points).
Ord == [X |-> 88, Y |-> 89, Z |-> 90]

RECURSIVE Digits(_)
\* str(n) of a natural number, as its sequence of decimal digits.
Digits(n) == IF n < 10 THEN <<n>> ELSE Append(Digits(n \div 10), n % 10)

\* s < t on digit strings, lexicographically (a proper prefix is smaller).
SeqLess(s, t) ==
  \E k \in 1..(Len(t)) :
     /\ \A i \in 1..(k - 1) : i <= Len(s) /\ s[i] = t[i]
     /\ \/ Len(s) = k - 1
        \/ (Len(s) >= k /\ s[k] < t[k])

(***************************************************************************)
(* Python str values.  A str is a TLA+ string; its characters (code        *)
(* points) are tabled here for every string the puzzles use, since str     *)
(* comparison is by code point.  A str held as a domain value is interned: *)
(* the k-th entry of Words is the value MaxVal + k, apart from every int   *)
(* value 1..MaxVal of the CSPs built by hand.                              *)
(***************************************************************************)

\* The value strings of the puzzles.
Words ==
  <<"Alice", "Bob", "Mallory", "Person_1", "Person_2", "Person_3", "Person_4",
    "Red", "blue", "cat", "dog", "green", "orange", "pear", "red", "turtle">>

\* The canonical category keys the puzzles use.
CategoryKeySeq ==
  <<"Color", "Food", "Name", "Pet", "Nationality", "Book", "Drink", "Occupation",
    "Phone", "Music", "Height", "Child", "Attr_1", "Attr_2", "Attr_3", "Attr_4">>

\* The same, as a set.
CategoryKeys == Range(CategoryKeySeq)

\* The characters of each string, as code points.
Chars ==
  [Alice |-> <<65, 108, 105, 99, 101>>,
   Bob |-> <<66, 111, 98>>,
   Mallory |-> <<77, 97, 108, 108, 111, 114, 121>>,
   Person_1 |-> <<80, 101, 114, 115, 111, 110, 95, 49>>,
   Person_2 |-> <<80, 101, 114, 115, 111, 110, 95, 50>>,
   Person_3 |-> <<80, 101, 114, 115, 111, 110, 95, 51>>,
   Person_4 |-> <<80, 101, 114, 115, 111, 110, 95, 52>>,
   Red |-> <<82, 101, 100>>,
   blue |-> <<98, 108, 117, 101>>,
   cat |-> <<99, 97, 116>>,
   dog |-> <<100, 111, 103>>,
   green |-> <<103, 114, 101, 101, 110>>,
   orange |-> <<111, 114, 97, 110, 103, 101>>,
   pear |-> <<112, 101, 97, 114>>,
   red |-> <<114, 101, 100>>,
   turtle |-> <<116, 117, 114, 116, 108, 101>>,
   Color |-> <<67, 111, 108, 111, 114>>,
   Food |-> <<70, 111, 111, 100>>,
   Name |-> <<78, 97, 109, 101>>,
   Nationality |-> <<78, 97, 116, 105, 111, 110, 97, 108, 105, 116, 121>>,
   Book |-> <<66, 111, 111, 107>>,
   Drink |-> <<68, 114, 105, 110, 107>>,
   Occupation |-> <<79, 99, 99, 117, 112, 97, 116, 105, 111, 110>>,
   Phone |-> <<80, 104, 111, 110, 101>>,
   Music |-> <<77, 117, 115, 105, 99>>,
   Height |-> <<72, 101, 105, 103, 104, 116>>,
   Child |-> <<67, 104, 105, 108, 100>>,
   Attr_1 |-> <<65, 116, 116, 114, 95, 49>>,
   Attr_2 |-> <<65, 116, 116, 114, 95, 50>>,
   Attr_3 |-> <<65, 116, 116, 114, 95, 51>>,
   Attr_4 |-> <<65, 116, 116, 114, 95, 52>>,
   Pet |-> <<80, 101, 116>>]

\* s.lower(), for the strings that have an upper-case letter.
Lower ==
  [Alice |-> "alice",
   Bob |-> "bob",
   Mallory |-> "mallory",
   Person_1 |-> "person_1",
   Person_2 |-> "person_2",
   Person_3 |-> "person_3",
   Person_4 |-> "person_4",
   Red |-> "red"]

\* _norm(s) of a string with single inner spaces: its lower case.
_norm(s) == IF s \in DOMAIN Lower THEN Lower[s] ELSE s

\* The domain value that holds the string w.
Interned(w) == MaxVal + (CHOOSE k \in DOMAIN Words : Words[k] = w)

\* The string a domain value above MaxVal holds.
WordOf(v) == Words[v - MaxVal]

\* str(v) as a sequence: the decimal digits of an int, the code points of
\* a string.
str(v) == IF v <= MaxVal THEN Digits(v) ELSE Chars[WordOf(v)]

\* str(v) as a string.
StrOf(v) == IF v <= MaxVal THEN ToString(v) ELSE WordOf(v)

\* str(a) < str(b).
StrLess(a, b) == SeqLess(str(a), str(b))

\* A puzzle has at most MaxHouses houses.
MaxHouses == 3

\* f"House_{i}_{category}"
VarName(i, category) == "House_" \o ToString(i) \o "_" \o category

\* The characters of a variable name: of a one-letter name, or of the
\* name of a house variable (a clue can name a house past the last one).
NameChars(name) ==
  IF name \in DOMAIN Ord THEN <<Ord[name]>>
  ELSE LET houses == MaxHouses + 2
           n == CHOOSE k \in 0..(Len(CategoryKeySeq) * houses - 1) :
                   VarName(k % houses, CategoryKeySeq[(k \div houses) + 1]) = name
       IN <<72, 111, 117, 115, 101, 95>>
          \o [k \in DOMAIN Digits(n % houses) |-> 48 + Digits(n % houses)[k]]
          \o <<95>> \o Chars[CategoryKeySeq[(n \div houses) + 1]]

\* a < b on variable names.
NameLess(a, b) == SeqLess(NameChars(a), NameChars(b))

(***************************************************************************)
(* Assignments: dicts variable -> value.                                   *)
(***************************************************************************)

\* {}
EmptyAssignment == [v \in {} |-> 0]

\* dict(a) followed by [v] = x.
Bind(a, v, x) == [u \in (DOMAIN a) \cup {v} |-> IF u = v THEN x ELSE a[u]]

(***************************************************************************)
(* Constraints.  A constraint is (kind, scope, var, value): kind names     *)
(* the predicate, scope is the list of variable names (<<>> when the       *)
(* constraint was built without a scope).                                  *)
(***************************************************************************)

\* Constraint.all_diff(variables)
all_diff(variables) ==
  [kind |-> "all_diff", scope |-> variables, var |-> "", value |-> 0]

\* Constraint.equals(variable, value)
equals(variable, value) ==
  [kind |-> "equals", scope |-> <<variable>>, var |-> variable, value |-> value]

\* The two-variable equality of the core tests: scope [a, b], true unless
\* both are bound to different values.
equal_constraint(a, b) ==
  [kind |-> "equal", scope |-> <<a, b>>, var |-> "", value |-> 0]

\* A constraint built with a predicate and no scope:
\* Constraint(description, predicate=lambda a: a.get(variable) != value),
\* whose scope stays None.
unscoped_differs(variable, value) ==
  [kind |-> "differs", scope |-> <<>>, var |-> variable, value |-> value]

(***************************************************************************)
(* The constraint builders of the parser.  Values are interned strings.    *)
(***************************************************************************)

\* An AllDiff that leaves the last house out of its scope.
alldiff_without_last(cat_name, scope_vars) ==
  [kind |-> "_alldiff_pred",
   scope |-> SubSeq(scope_vars, 1, Len(scope_vars) - 1),
   category |-> cat_name]

\* Constraint(scope=scope_vars, predicate=_alldiff_pred(scope_vars),
\* description=f"AllDiff({cat_name})")
_alldiff_pred(cat_name, scope_vars) ==
  [kind |-> "_alldiff_pred", scope |-> scope_vars, category |-> cat_name]

\* _unary_equals(var, value, desc)
_unary_equals(var, value) ==
  [kind |-> "_unary_equals", scope |-> <<var>>, var |-> var, value |-> value]

\* The scope the two-category builders make: House_i_a, House_i_b for
\* i = 1..num_houses.
PairScope(cat_a, cat_b, num_houses) ==
  [k \in 1..(2 * num_houses) |->
     VarName((k + 1) \div 2, IF k % 2 = 1 THEN cat_a ELSE cat_b)]

\* The fields the two-category builders close over.
PairConstraint(kind, cat_a, val_a, cat_b, val_b, num_houses) ==
  [kind |-> kind, scope |-> PairScope(cat_a, cat_b, num_houses),
   cat_a |-> cat_a, val_a |-> val_a, cat_b |-> cat_b, val_b |-> val_b,
   num_houses |-> num_houses]

\* _link_biimplication
_link_biimplication(cat_a, val_a, cat_b, val_b, num_houses) ==
  PairConstraint("_link_biimplication", cat_a, val_a, cat_b, val_b, num_houses)

\* _forbid_pair_same_house
_forbid_pair_same_house(cat_a, val_a, cat_b, val_b, num_houses) ==
  PairConstraint("_forbid_pair_same_house", cat_a, val_a, cat_b, val_b,
                 num_houses)

\* The constraint with the two colors swapped.
immediately_right_of_color(left_color, right_color, num_houses) ==
  [kind |-> "_immediately_left_of_color",
   scope |-> [i \in 1..num_houses |-> VarName(i, "Color")],
   left_color |-> right_color, right_color |-> left_color,
   num_houses |-> num_houses]

\* _immediately_left_of_color
_immediately_left_of_color(left_color, right_color, num_houses) ==
  [kind |-> "_immediately_left_of_color",
   scope |-> [i \in 1..num_houses |-> VarName(i, "Color")],
   left_color |-> left_color, right_color |-> right_color,
   num_houses |-> num_houses]

\* _adjacent_by_values
_adjacent_by_values(cat_a, val_a, cat_b, val_b, num_houses) ==
  PairConstraint("_adjacent_by_values", cat_a, val_a, cat_b, val_b, num_houses)

\* _ordered_by_values
_ordered_by_values(cat_a, val_a, cat_b, val_b, num_houses, direction) ==
  PairConstraint("_ordered_by_values", cat_a, val_a, cat_b, val_b, num_houses)
  @@ [direction |-> direction]

\* _distance_by_values
_distance_by_values(cat_a, val_a, cat_b, val_b, num_houses, dist) ==
  PairConstraint("_distance_by_values", cat_a, val_a, cat_b, val_b, num_houses)
  @@ [dist |-> dist]

\* Constraint(description=t_clean): no predicate, and the scope that
\* __post_init__ infers from the description -- the names listed after
\* the colon when the description starts with "alldiff", else None.
\* alldiff tells whether it starts so; listed are the names after the colon.
Constraint(alldiff, listed) ==
  [kind |-> "none", scope |-> IF alldiff THEN listed ELSE <<>>,
   alldiff |-> alldiff]

\* _find_positions_in_assignment: the first house whose variable of the
\* category is bound to the value.
_find_positions_in_assignment(assignment, category, target_value, num_houses) ==
  LET hits == {i \in 1..num_houses :
                 /\ VarName(i, category) \in DOMAIN assignment
                 /\ assignment[VarName(i, category)] = target_value}
  IN IF hits = {} THEN None
     ELSE Some(CHOOSE i \in hits : \A j \in hits : i <= j)

\* abs(x)
abs(x) == IF x < 0 THEN -x ELSE x

\* A predicate that accepts duplicates.
NoDuplicatesUnchecked(scope, assignment) == TRUE

\* Bound scope entries carry pairwise different values:
\* len(vals) == len(set(vals)).
NoDuplicates(scope, assignment) ==
  \A i, j \in DOMAIN scope :
     (i < j /\ scope[i] \in DOMAIN assignment /\ scope[j] \in DOMAIN assignment)
     => assignment[scope[i]] # assignment[scope[j]]

\* A predicate that accepts every assignment.
biimplication_ignored(c, a) == TRUE

\* The predicate _p of _link_biimplication.
biimplication_p(c, a) ==
  \A i \in 1..c.num_houses :
     LET va == VarName(i, c.cat_a)
         vb == VarName(i, c.cat_b)
     IN (va \in DOMAIN a /\ vb \in DOMAIN a)
        => /\ ~(a[va] = c.val_a /\ a[vb] # c.val_b)
           /\ ~(a[vb] = c.val_b /\ a[va] # c.val_a)

\* The predicate _p of _forbid_pair_same_house.
forbid_pair_p(c, a) ==
  \A i \in 1..c.num_houses :
     LET va == VarName(i, c.cat_a)
         vb == VarName(i, c.cat_b)
     IN ~(va \in DOMAIN a /\ vb \in DOMAIN a
          /\ a[va] = c.val_a /\ a[vb] = c.val_b)

\* A predicate that rejects until both colors are placed.
immediately_left_eager(c, a) ==
  LET pos_left == _find_positions_in_assignment(a, "Color", c.left_color,
                                                c.num_houses)
      pos_right == _find_positions_in_assignment(a, "Color", c.right_color,
                                                 c.num_houses)
  IN pos_left # None /\ pos_right # None /\ pos_right[1] = pos_left[1] + 1

\* The predicate _p of _immediately_left_of_color.
immediately_left_p(c, a) ==
  LET last_var == VarName(c.num_houses, "Color")
      first_var == VarName(1, "Color")
      pos_left == _find_positions_in_assignment(a, "Color", c.left_color,
                                                c.num_houses)
      pos_right == _find_positions_in_assignment(a, "Color", c.right_color,
                                                 c.num_houses)
  IN /\ ~(last_var \in DOMAIN a /\ a[last_var] = c.left_color)
     /\ ~(first_var \in DOMAIN a /\ a[first_var] = c.right_color)
     /\ \A i \in 1..(c.num_houses - 1) :
           LET vi == VarName(i, "Color")
               vj == VarName(i + 1, "Color")
           IN (vi \in DOMAIN a /\ vj \in DOMAIN a)
              => /\ ~(a[vi] = c.left_color /\ a[vj] # c.right_color)
                 /\ ~(a[vj] = c.right_color /\ a[vi] # c.left_color)
     /\ (pos_left # None /\ pos_right # None)
        => pos_right[1] = pos_left[1] + 1

\* The predicate _p of _adjacent_by_values.
adjacent_p(c, a) ==
  LET pa == _find_positions_in_assignment(a, c.cat_a, c.val_a, c.num_houses)
      pb == _find_positions_in_assignment(a, c.cat_b, c.val_b, c.num_houses)
  IN (pa # None /\ pb # None) => abs(pa[1] - pb[1]) = 1

\* The predicate _p of _ordered_by_values.
ordered_p(c, a) ==
  LET pa == _find_positions_in_assignment(a, c.cat_a, c.val_a, c.num_houses)
      pb == _find_positions_in_assignment(a, c.cat_b, c.val_b, c.num_houses)
  IN (pa # None /\ pb # None)
     => IF c.direction = "left" THEN pa[1] < pb[1] ELSE pa[1] > pb[1]

\* The predicate _p of _distance_by_values.
distance_p(c, a) ==
  LET pa == _find_positions_in_assignment(a, c.cat_a, c.val_a, c.num_houses)
      pb == _find_positions_in_assignment(a, c.cat_b, c.val_b, c.num_houses)
  IN (pa # None /\ pb # None) => abs(pa[1] - pb[1]) = c.dist + 1

\* Constraint.is_satisfied(assignment), by predicate.
is_satisfied(c, assignment) ==
  CASE c.kind = "all_diff" ->
         \* len(values) == len(set(values)) over the bound scope entries
         \A i, j \in DOMAIN c.scope :
            (i < j /\ c.scope[i] \in DOMAIN assignment
                   /\ c.scope[j] \in DOMAIN assignment)
            => assignment[c.scope[i]] # assignment[c.scope[j]]
    [] c.kind = "equals" ->
         c.var \notin DOMAIN assignment \/ assignment[c.var] = c.value
    [] c.kind = "equal" ->
         (c.scope[1] \in DOMAIN assignment /\ c.scope[2] \in DOMAIN assignment)
         => assignment[c.scope[1]] = assignment[c.scope[2]]
    [] c.kind = "differs" ->
         c.var \notin DOMAIN assignment \/ assignment[c.var] # c.value
    [] c.kind = "_alldiff_pred" -> NoDuplicates(c.scope, assignment)
    [] c.kind = "_unary_equals" ->
         c.var \notin DOMAIN assignment \/ assignment[c.var] = c.value
    [] c.kind = "_link_biimplication" -> biimplication_p(c, assignment)
    [] c.kind = "_forbid_pair_same_house" -> forbid_pair_p(c, assignment)
    [] c.kind = "_immediately_left_of_color" ->
         immediately_left_p(c, assignment)
    [] c.kind = "_adjacent_by_values" -> adjacent_p(c, assignment)
    [] c.kind = "_ordered_by_values" -> ordered_p(c, assignment)
    [] c.kind = "_distance_by_values" -> distance_p(c, assignment)
    [] c.kind = "none" ->
         \* no predicate: the AllDiff encoded in the description, else True
         IF c.alldiff THEN NoDuplicates(c.scope, assignment) ELSE TRUE
    [] OTHER -> TRUE

\* Constraint.involves(variable)
involves(c, variable) == c.scope # <<>> /\ variable \in Range(c.scope)

(***************************************************************************)
(* The CSP container.                                                      *)
(***************************************************************************)

\* Neighbor sets that hold only the variables listed later in a scope.
neighbor_sets_forward(variable_names, constraints) ==
  [var \in Range(variable_names) |->
     {v \in Range(variable_names) :
        /\ v # var
        /\ \E i \in DOMAIN constraints :
              \E j, k \in DOMAIN constraints[i].scope :
                 /\ j < k
                 /\ constraints[i].scope[j] = var
                 /\ constraints[i].scope[k] = v}]

\* CSP.__post_init__: the neighbor set of each variable.
neighbor_sets(variable_names, constraints) ==
  [var \in Range(variable_names) |->
     {v \in Range(variable_names) :
        /\ v # var
        /\ \E i \in DOMAIN constraints :
              /\ var \in Range(constraints[i].scope)
              /\ v \in Range(constraints[i].scope)}]

\* CSP.constraints_for(variable): constraints_by_var[variable]
constraints_for(c, variable) ==
  SelectSeq(c.constraints, LAMBDA k : variable \in Range(k.scope))

\* CSP.constraints_between(var_a, var_b)
constraints_between(c, var_a, var_b) ==
  SelectSeq(c.constraints,
            LAMBDA k : /\ k.scope # <<>>
                       /\ var_a \in Range(k.scope)
                       /\ var_b \in Range(k.scope))

\* all(constraint.is_satisfied(a) for constraint in constraints)
all_satisfied(constraints, a) ==
  \A i \in DOMAIN constraints : is_satisfied(constraints[i], a)

\* A final check that accepts every assignment.
is_consistent_unchecked(c, assignment) == TRUE

\* CSP.is_consistent(assignment)
is_consistent(c, assignment) == all_satisfied(c.constraints, assignment)

\* A copy of the canonical domains, whatever the source.
copy_domains_canonical(h, source) == [heap |-> Append(h, h[1]), ref |-> Len(h) + 1]

\* A copy that shares the source map instead of copying it.
copy_domains_aliased(h, source) == [heap |-> h, ref |-> source]

\* CSP.copy_domains(domains): a new map with a new set per variable; the
\* result is the grown heap and the reference of the copy.
copy_domains(h, source) == [heap |-> Append(h, h[source]), ref |-> Len(h) + 1]

(***************************************************************************)
(* The tracer.  An event is a TraceStep without its timestamp; the reason  *)
(* text is the tuple of its words and numbers.                             *)
(***************************************************************************)

\* Tracer(enabled=True)
Tracer(enabled) == [enabled |-> enabled, steps |-> <<>>, step_counter |-> 0]

\* get_tracer(): the global tracer, created on first use.
get_tracer(g) == IF g = None THEN Some(Tracer(TRUE)) ELSE g

TraceStep(n, action_type, variable, value, domain_size, assignment_size, reason) ==
  [step_number |-> n, action_type |-> action_type, variable |-> variable,
   value |-> value, domain_size |-> domain_size,
   assignment_size |-> assignment_size, reason |-> reason]

\* A log body that appends without counting the step.
LogUncounted(g, action_type, variable, value, domain_size, assignment_size, reason) ==
  LET t == g[1] IN
  IF ~t.enabled THEN g
  ELSE Some([t EXCEPT
         !.steps = Append(t.steps,
                     TraceStep(t.step_counter + 1, action_type, variable, value,
                               domain_size, assignment_size, reason))])

\* A log body that counts the step also when tracing is disabled.
LogCountingDisabled(g, action_type, variable, value, domain_size, assignment_size, reason) ==
  LET t == g[1] IN
  IF ~t.enabled THEN Some([t EXCEPT !.step_counter = t.step_counter + 1])
  ELSE Some([t EXCEPT
         !.step_counter = t.step_counter + 1,
         !.steps = Append(t.steps,
                     TraceStep(t.step_counter + 1, action_type, variable, value,
                               domain_size, assignment_size, reason))])

\* The body shared by the log_* methods: nothing when disabled, else count
\* the step and append it.
Log(g, action_type, variable, value, domain_size, assignment_size, reason) ==
  LET t == g[1] IN
  IF ~t.enabled THEN g
  ELSE Some([t EXCEPT
         !.step_counter = t.step_counter + 1,
         !.steps = Append(t.steps,
                     TraceStep(t.step_counter + 1, action_type, variable, value,
                               domain_size, assignment_size, reason))])

\* Tracer.log_assign
log_assign(g, variable, value, domain_size, assignment_size) ==
  Log(g, "assign", Some(variable), Some(StrOf(value)), Some(domain_size),
      Some(assignment_size), None)

\* Tracer.log_backtrack, with its default reason
log_backtrack(g, variable) ==
  Log(g, "backtrack", Some(variable), None, None, None, <<"No valid values">>)

\* Tracer.log_ac3_run
log_ac3_run(g, variables_affected, arcs_processed) ==
  Log(g, "ac3", None, None, None, None,
      <<"Affected", variables_affected, "vars, processed", arcs_processed, "arcs">>)

\* Tracer.log_forward_check
log_forward_check(g, variable, domains_pruned) ==
  Log(g, "forward_check", Some(variable), None, None, None,
      <<"Pruned", domains_pruned, "values from other domains">>)

\* A log_solution_found that appends nothing.
log_solution_found_dropped(g, assignment_size) == g

\* Tracer.log_solution_found
log_solution_found(g, assignment_size) ==
  Log(g, "solution_found", None, None, None, Some(assignment_size), None)

\* Tracer.log_constraint_check: the event also carries constraint_checked
\* and is_valid.
log_constraint_check(g, constraint_desc, is_valid, variable) ==
  LET logged == Log(g, "constraint_check", variable, None, None, None, None)
      n == Len(logged[1].steps)
  IN IF ~g[1].enabled THEN logged
     ELSE Some([logged[1] EXCEPT
            !.steps[n] = @ @@ [constraint_checked |-> Some(constraint_desc),
                               is_valid |-> Some(is_valid)]])

\* Tracer.log_domain_reduction, with its default reason
log_domain_reduction(g, variable, new_domain_size) ==
  Log(g, "domain_reduced", Some(variable), None, Some(new_domain_size), None,
      <<"">>)

\* A reset that leaves the global tracer in place.
reset_tracer_kept(g) == g

\* reset_tracer()
reset_tracer(g) == None

\* enable_tracing(enabled)
enable_tracing(g, enabled) == Some([get_tracer(g)[1] EXCEPT !.enabled = enabled])

(***************************************************************************)
(* The solver's helpers.  A helper that mutates a domain map in place      *)
(* takes the map and gives back the map it leaves behind.                  *)
(***************************************************************************)

\* MRV without the name in the key: the first of the smallest domains in
\* variable_names order.
select_first_smallest(c, assignment, domains) ==
  LET names == c.variable_names
      un == {i \in DOMAIN names : names[i] \notin DOMAIN assignment}
  IN IF un = {} THEN None
     ELSE LET i == CHOOSE k \in un :
                     \A m \in un :
                        \/ Cardinality(domains[names[k]]) < Cardinality(domains[names[m]])
                        \/ /\ Cardinality(domains[names[k]]) = Cardinality(domains[names[m]])
                           /\ k <= m
          IN Some(names[i])

\* A selection that breaks ties among the smallest domains by the iteration
\* order of the first variable's neighbor set, and only then by name.
select_in_neighbor_order(c, assignment, domains) ==
  LET unassigned == {v \in Range(c.variable_names) : v \notin DOMAIN assignment}
      smallest == {v \in unassigned :
                     \A u \in unassigned :
                        Cardinality(domains[v]) <= Cardinality(domains[u])}
      walk == c.neighbors[c.variable_names[1]]
      seen == {k \in DOMAIN walk : walk[k] \in smallest}
  IN IF unassigned = {} THEN None
     ELSE IF seen = {}
          THEN Some(CHOOSE v \in smallest :
                      \A u \in smallest \ {v} : NameLess(v, u))
          ELSE Some(walk[CHOOSE k \in seen : \A m \in seen : k <= m])

\* A selection that forgets to leave out the assigned variables.
select_any_variable(c, assignment, domains) ==
  IF c.variable_names = <<>> THEN None ELSE Some(c.variable_names[1])

\* _select_unassigned_variable: min over the unassigned variables of the
\* key (len(domains[v]), v).
_select_unassigned_variable(c, assignment, domains) ==
  LET unassigned == {v \in Range(c.variable_names) : v \notin DOMAIN assignment}
  IN IF unassigned = {} THEN None
     ELSE Some(CHOOSE v \in unassigned :
                 \A u \in unassigned \ {v} :
                    \/ Cardinality(domains[v]) < Cardinality(domains[u])
                    \/ /\ Cardinality(domains[v]) = Cardinality(domains[u])
                       /\ NameLess(v, u))

RECURSIVE SortedByStr(_)
\* sorted(S, key=str)
SortedByStr(S) ==
  IF S = {} THEN <<>>
  ELSE LET m == CHOOSE x \in S : \A y \in S \ {x} : StrLess(x, y)
       IN <<m>> \o SortedByStr(S \ {m})

\* _order_domain_values
_order_domain_values(variable, domains) == SortedByStr(domains[variable])

\* _is_value_consistent
_is_value_consistent(c, variable, value, assignment) ==
  all_satisfied(constraints_for(c, variable), Bind(assignment, variable, value))

RECURSIVE EnforceFrom(_, _, _, _)
\* The loop of _enforce_unary_constraints from the i-th variable on.
EnforceFrom(c, domains, assignment, i) ==
  IF i > Len(c.variable_names) THEN [ok |-> TRUE, domains |-> domains]
  ELSE LET var == c.variable_names[i]
           unary_constraints ==
             SelectSeq(constraints_for(c, var), LAMBDA k : Len(k.scope) = 1)
           kept == {value \in domains[var] :
                      all_satisfied(unary_constraints, Bind(assignment, var, value))}
           pruned == [domains EXCEPT ![var] = kept]
       IN IF unary_constraints = <<>>
          THEN EnforceFrom(c, domains, assignment, i + 1)
          ELSE IF kept = {}
               THEN [ok |-> FALSE, domains |-> pruned]
               ELSE EnforceFrom(c, pruned, assignment, i + 1)

\* _enforce_unary_constraints
_enforce_unary_constraints(c, domains, assignment) ==
  EnforceFrom(c, domains, assignment, 1)

\* The neighbor values forward checking keeps, with the test inverted.
fc_kept_inverted(c, variable, neighbor, assignment, domains) ==
  {neighbor_value \in domains[neighbor] :
     ~all_satisfied(constraints_between(c, variable, neighbor),
                    Bind(Bind(assignment, neighbor, neighbor_value),
                         variable, assignment[variable]))}

\* The values of `neighbor` that lines 112-118 of _forward_check keep.
fc_kept(c, variable, neighbor, assignment, domains) ==
  {neighbor_value \in domains[neighbor] :
     all_satisfied(constraints_between(c, variable, neighbor),
                   Bind(Bind(assignment, neighbor, neighbor_value),
                        variable, assignment[variable]))}

RECURSIVE ForwardFrom(_, _, _, _, _, _)
\* The neighbor loop of _forward_check from the i-th neighbor on.
ForwardFrom(c, variable, assignment, domains, pruned, i) ==
  LET order == c.neighbors[variable] IN
  IF i > Len(order) THEN [ok |-> TRUE, domains |-> domains, pruned |-> pruned]
  ELSE LET neighbor == order[i]
           kept == fc_kept(c, variable, neighbor, assignment, domains)
           after == [domains EXCEPT ![neighbor] = kept]
           count == pruned + Cardinality(domains[neighbor] \ kept)
       IN IF constraints_between(c, variable, neighbor) = <<>>
          THEN ForwardFrom(c, variable, assignment, domains, pruned, i + 1)
          ELSE IF kept = {}
               THEN [ok |-> FALSE, domains |-> after, pruned |-> count]
               ELSE ForwardFrom(c, variable, assignment, after, count, i + 1)

\* _forward_check, without its log call
_forward_check(c, variable, assignment, domains) ==
  LET u == _enforce_unary_constraints(c, domains, assignment)
  IN IF ~u.ok THEN [ok |-> FALSE, domains |-> u.domains, pruned |-> 0]
     ELSE ForwardFrom(c, variable, assignment, u.domains, 0, 1)

\* A support test that asks every value of xj to agree (all for any).
has_support_in_all(c, xi, value, xj, domains, assignment, constraints) ==
  \A neighbor_value \in domains[xj] :
     all_satisfied(constraints,
                   Bind(Bind(assignment, xi, value), xj, neighbor_value))

\* _has_support
_has_support(c, xi, value, xj, domains, assignment, constraints) ==
  \E neighbor_value \in domains[xj] :
     all_satisfied(constraints,
                   Bind(Bind(assignment, xi, value), xj, neighbor_value))

\* _revise
_revise(c, xi, xj, domains, assignment) ==
  LET related_constraints == constraints_between(c, xi, xj)
      kept == {value \in domains[xi] :
                 _has_support(c, xi, value, xj, domains, assignment,
                              related_constraints)}
  IN IF related_constraints = <<>>
     THEN [revised |-> FALSE, domains |-> domains]
     ELSE [revised |-> kept # domains[xi],
           domains |-> [domains EXCEPT ![xi] = kept]]

RECURSIVE ArcsFrom(_, _)
\* Lines 135-137 of _ac3: every (var, neighbor), variables in
\* variable_names order, neighbors in the set's iteration order.
ArcsFrom(c, i) ==
  IF i > Len(c.variable_names) THEN <<>>
  ELSE LET var == c.variable_names[i]
       IN [k \in DOMAIN c.neighbors[var] |-> <<var, c.neighbors[var][k]>>]
          \o ArcsFrom(c, i + 1)

\* Nothing is put back on the worklist after a revision.
requeue_nothing(c, xi, xj) == <<>>

\* Lines 148-150 of _ac3: the arcs (xk, xi) put back after xi was revised.
requeue(c, xi, xj) ==
  LET order == SelectSeq(c.neighbors[xi], LAMBDA xk : xk # xj)
  IN [k \in DOMAIN order |-> <<order[k], xi>>]

(***************************************************************************)
(* The input family.                                                       *)
(***************************************************************************)

\* Variable names in declaration order (which is not their sorted order).
AllNames == <<"X", "Z", "Y">>

\* The variable lists: every prefix of AllNames, the empty list included.
NameLists == {SubSeq(AllNames, 1, n) : n \in 0..Len(AllNames)}

\* The constraints a CSP of the family is built from.
Menu ==
  <<all_diff(<<"X", "Y">>), all_diff(<<"X", "Z", "Y">>),
    equal_constraint("Y", "Z"), equals("X", 1), unscoped_differs("Z", 1)>>

\* The menu entries that only mention variables of `names`.
Usable(names) ==
  {i \in DOMAIN Menu :
     /\ Range(Menu[i].scope) \subseteq Range(names)
     /\ Menu[i].var \in Range(names) \cup {""}}

RECURSIVE PickSeq(_)
\* The menu entries with index in I, in menu order.
PickSeq(I) ==
  IF I = {} THEN <<>>
  ELSE LET m == CHOOSE i \in I : \A j \in I : i <= j
       IN <<Menu[m]>> \o PickSeq(I \ {m})

\* The constraint lists over `names`: at most MaxCons menu entries.
ConstraintLists(names) ==
  {PickSeq(I) : I \in {J \in SUBSET Usable(names) : Cardinality(J) <= MaxCons}}

\* The initial domain of a variable: the first k values (none, when k = 0)
\* or a single value.
DomainPool == {1..k : k \in 0..MaxVal} \cup {{k} : k \in 1..MaxVal}

\* The initial domain maps.
DomainMaps(names) == [Range(names) -> DomainPool]

\* The iteration orders the neighbor sets can have.
NeighborOrders(names, constraints) ==
  LET ns == neighbor_sets(names, constraints)
      seqs == UNION {SetToSeqs(ns[v]) : v \in Range(names)}
  IN {f \in [Range(names) -> seqs] : \A v \in Range(names) : f[v] \in SetToSeqs(ns[v])}

(***************************************************************************)
(* State.                                                                  *)
(*   csp     variable_names, constraints, neighbors (each set as the       *)
(*           sequence it iterates in)                                      *)
(*   heap    the domain maps; heap[1] is csp.domains                       *)
(*   stack   the active _backtrack calls, innermost last                   *)
(*   pc      where the running call stands                                 *)
(*   ac3     the locals of the latest _ac3 call and its return value       *)
(*   tracer  the module global _global_tracer                              *)
(*   result  what solve returned                                           *)
(*   run     1 for the first call, 2 for the second                        *)
(*   first   what the first call left, kept for the second                 *)
(*   puzzle  the puzzle record a compiled CSP was parsed from              *)
(*   raised  the exception a call ended with                               *)
(*   call    a single operation called on its own: its name, arguments     *)
(*           and return value                                              *)
(***************************************************************************)

Ac3Frame(caller, domains, assignment) ==
  [caller |-> caller, domains |-> domains, assignment |-> assignment,
   queue |-> <<>>, arcs_processed |-> 0, variables_affected |-> 0,
   wiped |-> FALSE, ok |-> None]

Ac3Idle == Ac3Frame("", 0, EmptyAssignment)

\* A _backtrack call: its parameters, the variable it branches on, the
\* candidate values still to try, and the locals of the current candidate.
\* base is the size of the heap when the call was made.
Frame(assignment, domains, base) ==
  [assignment |-> assignment, domains |-> domains, base |-> base,
   var |-> "", values |-> <<>>,
   local_assignment |-> EmptyAssignment, local_domains |-> 0]

Top == stack[Len(stack)]

InitCSP ==
  \E names \in NameLists :
    \E constraints \in ConstraintLists(names) :
      \E order \in NeighborOrders(names, constraints) :
        \E domains \in DomainMaps(names) :
          /\ csp = [variable_names |-> names, constraints |-> constraints,
                    neighbors |-> order]
          /\ heap = <<domains>>

\* A CSP was built; solve(csp) is about to be called in a fresh process.
Init ==
  /\ InitCSP
  /\ stack = <<>>
  /\ pc = "solve"
  /\ ac3 = Ac3Idle
  /\ tracer = None
  /\ result = EmptyAssignment
  /\ run = 1
  /\ first = None
  /\ puzzle = None
  /\ raised = None
  /\ call = None

(***************************************************************************)
(* Returns.                                                                *)
(***************************************************************************)

\* solve returns r: its frames and working maps are dropped.
ReturnFromSolve(r, h) ==
  /\ pc' = "done"
  /\ result' = r
  /\ stack' = <<>>
  /\ heap' = <<h[1]>>

\* The innermost _backtrack returns None: solve turns it into {} (line 26),
\* an outer _backtrack goes on with its next candidate (lines 65-67, 43).
ReturnNone(h) ==
  IF Len(stack) = 1 THEN ReturnFromSolve(EmptyAssignment, h)
  ELSE LET caller == stack[Len(stack) - 1] IN
       /\ stack' = Append(SubSeq(stack, 1, Len(stack) - 2),
                          [caller EXCEPT !.local_assignment = EmptyAssignment,
                                         !.local_domains = 0])
       /\ heap' = SubSeq(h, 1, caller.base)
       /\ pc' = "loop"
       /\ UNCHANGED result

\* _ac3 returns ok to its caller: solve (lines 22-25), _backtrack
\* (lines 62-65) or a direct call.
Ac3Returns(ok, h) ==
  CASE ac3.caller = "solve" ->
         IF ok
         THEN /\ stack' = <<Frame(EmptyAssignment, ac3.domains, Len(h))>>
              /\ heap' = h
              /\ pc' = "backtrack"
              /\ UNCHANGED result
         ELSE ReturnFromSolve(EmptyAssignment, h)
    [] ac3.caller = "backtrack" ->
         IF ok
         THEN /\ stack' = Append(stack, Frame(Top.local_assignment,
                                              Top.local_domains, Len(h)))
              /\ heap' = h
              /\ pc' = "backtrack"
              /\ UNCHANGED result
         ELSE /\ stack' = [stack EXCEPT ![Len(stack)] =
                             [@ EXCEPT !.local_assignment = EmptyAssignment,
                                       !.local_domains = 0]]
              /\ heap' = SubSeq(h, 1, Top.base)
              /\ pc' = "loop"
              /\ UNCHANGED result
    [] OTHER ->
         /\ heap' = h
         /\ pc' = "returned"
         /\ UNCHANGED <<stack, result>>

(***************************************************************************)
(* solve and _ac3.                                                         *)
(***************************************************************************)

\* solve, lines 18-22, up to its call of _ac3.
Solve ==
  /\ pc = "solve"
  /\ LET cp == copy_domains(heap, 1)
         u == _enforce_unary_constraints(csp, cp.heap[cp.ref], EmptyAssignment)
         h == [cp.heap EXCEPT ![cp.ref] = u.domains]
     IN IF u.ok
        THEN /\ pc' = "ac3_call"
             /\ heap' = h
             /\ ac3' = Ac3Frame("solve", cp.ref, EmptyAssignment)
             /\ UNCHANGED <<stack, result>>
        ELSE /\ ReturnFromSolve(EmptyAssignment, h)
             /\ UNCHANGED ac3
  /\ tracer' = get_tracer(tracer)
  /\ UNCHANGED <<csp, run, first, puzzle, raised, call>>

\* _ac3, lines 130-139: unary propagation, then the worklist of all arcs.
Ac3Call ==
  /\ pc = "ac3_call"
  /\ LET u == _enforce_unary_constraints(csp, heap[ac3.domains], ac3.assignment)
         h == [heap EXCEPT ![ac3.domains] = u.domains]
     IN IF u.ok
        THEN /\ pc' = "ac3_loop"
             /\ heap' = h
             /\ ac3' = [ac3 EXCEPT !.queue = ArcsFrom(csp, 1)]
             /\ UNCHANGED <<stack, result>>
        ELSE /\ ac3' = [ac3 EXCEPT !.ok = Some(FALSE)]
             /\ Ac3Returns(FALSE, h)
  /\ tracer' = get_tracer(tracer)
  /\ UNCHANGED <<csp, run, first, puzzle, raised, call>>

\* The test of line 146, left out.
emptied_ignored(domains, xi) == FALSE

\* Line 146 of _ac3: not domains[xi]
emptied(domains, xi) == domains[xi] = {}

\* _ac3, lines 141-150: one turn of the worklist loop.
Ac3Revise ==
  /\ pc = "ac3_loop"
  /\ ac3.queue # <<>>
  /\ LET xi == Head(ac3.queue)[1]
         xj == Head(ac3.queue)[2]
         r == _revise(csp, xi, xj, heap[ac3.domains], ac3.assignment)
         h == [heap EXCEPT ![ac3.domains] = r.domains]
         fails == r.revised /\ emptied(r.domains, xi)
         a == [ac3 EXCEPT
                 !.queue = IF r.revised /\ ~fails
                           THEN Tail(@) \o requeue(csp, xi, xj)
                           ELSE Tail(@),
                 !.arcs_processed = @ + 1,
                 !.variables_affected = IF r.revised THEN @ + 1 ELSE @,
                 !.wiped = @ \/ (r.revised /\ r.domains[xi] = {})]
     IN IF fails
        THEN /\ ac3' = [a EXCEPT !.ok = Some(FALSE)]
             /\ Ac3Returns(FALSE, h)
        ELSE /\ ac3' = a
             /\ heap' = h
             /\ UNCHANGED <<pc, stack, result>>
  /\ UNCHANGED <<csp, tracer, run, first, puzzle, raised, call>>

\* _ac3, lines 151-153: the worklist is empty.
Ac3Finish ==
  /\ pc = "ac3_loop"
  /\ ac3.queue = <<>>
  /\ tracer' = IF ac3.arcs_processed > 0
               THEN log_ac3_run(tracer, ac3.variables_affected, ac3.arcs_processed)
               ELSE tracer
  /\ ac3' = [ac3 EXCEPT !.ok = Some(TRUE)]
  /\ Ac3Returns(TRUE, heap)
  /\ UNCHANGED <<csp, run, first, puzzle, raised, call>>

(***************************************************************************)
(* _backtrack.                                                             *)
(***************************************************************************)

\* _backtrack, lines 32-43: the innermost call starts.  A complete
\* assignment is checked and returned through every caller; otherwise the
\* variable is selected and its values ordered.
Backtrack ==
  /\ pc = "backtrack"
  /\ IF Cardinality(DOMAIN Top.assignment) = Len(csp.variable_names)
     THEN IF is_consistent(csp, Top.assignment)
          THEN /\ tracer' = log_solution_found(tracer,
                                               Cardinality(DOMAIN Top.assignment))
               /\ ReturnFromSolve(Top.assignment, heap)
          ELSE /\ ReturnNone(heap)
               /\ UNCHANGED tracer
     ELSE LET s == _select_unassigned_variable(csp, Top.assignment,
                                               heap[Top.domains])
          IN IF s = None
             THEN /\ ReturnNone(heap)
                  /\ UNCHANGED tracer
             ELSE /\ stack' = [stack EXCEPT ![Len(stack)] =
                                 [@ EXCEPT !.var = s[1],
                                           !.values = _order_domain_values(
                                                        s[1], heap[Top.domains])]]
                  /\ pc' = "loop"
                  /\ UNCHANGED <<heap, result, tracer>>
  /\ UNCHANGED <<csp, ac3, run, first, puzzle, raised, call>>

\* _backtrack, lines 43-62: the next candidate value, up to the call of
\* _ac3.  A rejected candidate, or one whose forward check fails, leaves the
\* loop at the following candidate.
TryValue ==
  /\ pc = "loop"
  /\ Top.values # <<>>
  /\ LET var == Top.var
         value == Head(Top.values)
         rest == [Top EXCEPT !.values = Tail(@)]
         local_assignment == Bind(Top.assignment, var, value)
         g == log_assign(tracer, var, value,
                         Cardinality(heap[Top.domains][var]),
                         Cardinality(DOMAIN local_assignment))
         cp == copy_domains(heap, Top.domains)
         h1 == [cp.heap EXCEPT ![cp.ref][var] = {value}]
         fc == _forward_check(csp, var, local_assignment, h1[cp.ref])
         h2 == [h1 EXCEPT ![cp.ref] = fc.domains]
     IN IF ~_is_value_consistent(csp, var, value, Top.assignment)
        THEN /\ stack' = [stack EXCEPT ![Len(stack)] = rest]
             /\ UNCHANGED <<pc, heap, ac3, tracer>>
        ELSE IF ~fc.ok
        THEN /\ stack' = [stack EXCEPT ![Len(stack)] = rest]
             /\ heap' = SubSeq(h2, 1, Top.base)
             /\ tracer' = g
             /\ UNCHANGED <<pc, ac3>>
        ELSE /\ stack' = [stack EXCEPT ![Len(stack)] =
                            [rest EXCEPT !.local_assignment = local_assignment,
                                         !.local_domains = cp.ref]]
             /\ heap' = h2
             /\ tracer' = IF fc.pruned > 0
                          THEN log_forward_check(g, var, fc.pruned)
                          ELSE g
             /\ ac3' = Ac3Frame("backtrack", cp.ref, local_assignment)
             /\ pc' = "ac3_call"
  /\ UNCHANGED <<csp, result, run, first, puzzle, raised, call>>

\* _backtrack, lines 69-70: no candidate is left.
Exhausted ==
  /\ pc = "loop"
  /\ Top.values = <<>>
  /\ tracer' = log_backtrack(tracer, Top.var)
  /\ ReturnNone(heap)
  /\ UNCHANGED <<csp, ac3, run, first, puzzle, raised, call>>

\* One call of solve(csp).
Next == Solve \/ Ac3Call \/ Ac3Revise \/ Ac3Finish \/ Backtrack \/ TryValue \/ Exhausted

Spec == Init /\ [][Next]_vars


RECURSIVE SortedNames(_)
\* sorted(S) of a set of variable names
SortedNames(S) ==
  IF S = {} THEN <<>>
  ELSE LET m == CHOOSE x \in S : \A y \in S \ {x} : NameLess(x, y)
       IN <<m>> \o SortedNames(S \ {m})

\* The CSPs whose neighbor sets iterate in sorted order.
InitSorted ==
  /\ Init
  /\ \A v \in Range(csp.variable_names) :
        csp.neighbors[v] = SortedNames(Range(csp.neighbors[v]))

\* One call of solve(csp), which the interpreter runs to its end: the
\* solver is single-threaded and synchronous, nothing else is scheduled.
FairSpec == InitSorted /\ [][Next]_vars /\ WF_vars(Next)

(***************************************************************************)
(* Two solves of one CSP.  The second runs in another process: on a        *)
(* tracer that was reset, with the neighbor sets in any iteration order.   *)
(* The first traverses each neighbor set in sorted order; since equality   *)
(* is transitive, every order agreeing with that one is all orders         *)
(* agreeing with each other.                                               *)
(***************************************************************************)

\* The first solve has returned; reset_tracer(), and the same CSP is built
\* and solved again.
SolveAgain ==
  /\ pc = "done"
  /\ run = 1
  /\ \E order \in NeighborOrders(csp.variable_names, csp.constraints) :
        csp' = [csp EXCEPT !.neighbors = order]
  /\ first' = Some([result |-> result, steps |-> tracer[1].steps])
  /\ tracer' = None
  /\ run' = 2
  /\ pc' = "solve"
  /\ ac3' = Ac3Idle
  /\ result' = EmptyAssignment
  /\ UNCHANGED <<heap, stack, puzzle, raised, call>>

NextTwice == Next \/ SolveAgain

SpecTwice == InitSorted /\ [][NextTwice]_vars

(***************************************************************************)
(* _ac3 called directly, as the core tests call it, on a copy of the       *)
(* canonical domains, with no outer assignment or with the first variable  *)
(* assigned (its domain then being that value alone); and called a second  *)
(* time on the domains the first call left.                                *)
(***************************************************************************)

InitAc3 ==
  /\ InitCSP
  /\ stack = <<>>
  /\ pc = "ac3_start"
  /\ ac3 = Ac3Idle
  /\ tracer = None
  /\ result = EmptyAssignment
  /\ run = 1
  /\ first = None
  /\ puzzle = None
  /\ raised = None
  /\ call = None

\* domains = csp.copy_domains(); _ac3(csp, domains, assignment)
Ac3Direct ==
  /\ pc = "ac3_start"
  /\ \E assignment \in
          {EmptyAssignment} \cup
          (IF csp.variable_names = <<>> THEN {}
           ELSE {Bind(EmptyAssignment, csp.variable_names[1], x) :
                   x \in heap[1][csp.variable_names[1]]}) :
        LET cp == copy_domains(heap, 1) IN
        /\ heap' = [cp.heap EXCEPT ![cp.ref] =
                      [v \in DOMAIN @ |->
                         IF v \in DOMAIN assignment THEN {assignment[v]} ELSE @[v]]]
        /\ ac3' = Ac3Frame("test", cp.ref, assignment)
  /\ pc' = "ac3_call"
  /\ UNCHANGED <<csp, stack, tracer, result, run, first, puzzle, raised, call>>

\* _ac3(csp, domains, assignment) once more, on the same map.
Ac3Again ==
  /\ pc = "returned"
  /\ run = 1
  /\ first' = Some([ok |-> ac3.ok[1], domains |-> heap[ac3.domains]])
  /\ run' = 2
  /\ ac3' = Ac3Frame("test", ac3.domains, ac3.assignment)
  /\ pc' = "ac3_call"
  /\ UNCHANGED <<csp, heap, stack, tracer, result, puzzle, raised, call>>

NextAc3 == Ac3Direct \/ Ac3Call \/ Ac3Revise \/ Ac3Finish \/ Ac3Again

SpecAc3 == InitAc3 /\ [][NextAc3]_vars

(***************************************************************************)
(* The puzzle compiler of src/src/csp/parser.py.  A puzzle record is taken *)
(* after size inference, the description/clues split and category          *)
(* extraction: num_houses, the categories (key and declared values, in     *)
(* description order) and the clue sentences.  A clue sentence is the      *)
(* template whose regular expression it matches (form) and the phrases     *)
(* the expression captures; every other sentence has form "other", with    *)
(* its capitalized tokens (caps), whether it starts with "alldiff"         *)
(* (alldiff) and the names it lists after its colon (listed).              *)
(***************************************************************************)

\* The words that match [A-Z][a-z]+ and are in neither _STOP_CAPS nor
\* _NUMBER_WORDS.
Capitalized == {"Alice", "Bob", "Mallory", "Red"}

\* re.fullmatch(r"[A-Z][a-z]+", phrase)
fullmatch_capitalized(phrase) ==
  /\ Len(Chars[phrase]) >= 2
  /\ Chars[phrase][1] \in 65..90
  /\ \A i \in 2..Len(Chars[phrase]) : Chars[phrase][i] \in 97..122

\* The tokens of a phrase that _infer_names_from_clues counts.
CapsOf(phrase) == IF phrase \in Capitalized THEN <<phrase>> ELSE <<>>

\* The capitalized tokens of a clue sentence, stop words left out.
ClueTokens(clue) ==
  CASE clue.form = "house_is" -> CapsOf(clue.val)
    [] clue.form = "lives_in_house" -> CapsOf(clue.name)
    [] clue.form = "person_owns" -> CapsOf(clue.val)
    [] clue.form = "lives_in_the" -> CapsOf(clue.name) \o CapsOf(clue.val)
    [] clue.form = "contains" -> CapsOf(clue.val_a) \o CapsOf(clue.val_b)
    [] clue.form = "does_not_live" -> CapsOf(clue.name) \o CapsOf(clue.val)
    [] clue.form = "immediately_left" -> CapsOf(clue.c1) \o CapsOf(clue.c2)
    [] OTHER -> clue.caps

\* The tokens of a clue sentence in a name slot ("X lives", "X does not").
ClueSlots(clue) ==
  IF clue.form \in {"lives_in_house", "lives_in_the", "does_not_live"}
  THEN CapsOf(clue.name) ELSE <<>>

\* How often tok occurs in a sequence of tokens.
Count(tokens, tok) == Cardinality({i \in DOMAIN tokens : tokens[i] = tok})

RECURSIVE Ranked(_, _)
\* sorted(freq.items(), key=lambda kv: (-kv[1], kv[0])), names only
Ranked(toks, freq) ==
  IF toks = {} THEN <<>>
  ELSE LET m == CHOOSE x \in toks :
                  \A y \in toks \ {x} :
                     \/ freq[x] > freq[y]
                     \/ freq[x] = freq[y] /\ SeqLess(Chars[x], Chars[y])
       IN <<m>> \o Ranked(toks \ {m}, freq)

RECURSIVE Frequency(_, _, _)
\* freq[tok] over the first i clues: one per occurrence, three more per
\* occurrence in a name slot.
Frequency(clues, tok, i) ==
  IF i = 0 THEN 0
  ELSE Count(ClueTokens(clues[i]), tok) + 3 * Count(ClueSlots(clues[i]), tok)
       + Frequency(clues, tok, i - 1)

\* _infer_names_from_clues
_infer_names_from_clues(clues, num_houses) ==
  LET toks == UNION {Range(ClueTokens(clues[i])) : i \in DOMAIN clues}
      freq == [t \in toks |-> Frequency(clues, t, Len(clues))]
      ranked == Ranked(toks, freq)
      names == SubSeq(ranked, 1, IF Len(ranked) < num_houses THEN Len(ranked)
                                 ELSE num_houses)
  IN [i \in 1..num_houses |->
        IF i <= Len(names) THEN names[i] ELSE "Person_" \o ToString(i)]

\* _build_value_index, looked up: value_to_cat.get(key), the first
\* category that declares a value whose _norm is key.
value_to_cat(categories, key) ==
  LET declaring == {i \in DOMAIN categories :
                      \E j \in DOMAIN categories[i].values :
                         _norm(categories[i].values[j]) = key}
  IN IF declaring = {} THEN None
     ELSE Some(categories[CHOOSE i \in declaring : \A j \in declaring : i <= j].key)

\* "Color" in categories, and the like
HasCategory(categories, key) ==
  \E i \in DOMAIN categories : categories[i].key = key

\* The fallback of _compile_clue: Constraint(description=t_clean).
NonBinding(clue) ==
  IF clue.form = "other" THEN Constraint(clue.alldiff, clue.listed)
  ELSE Constraint(FALSE, <<>>)

\* _compile_clue, lines 551-552 and 556-557: a capitalized word that the
\* value index does not hold is taken for a Name.
name_if_none(cat, phrase) ==
  IF cat = None /\ fullmatch_capitalized(phrase) THEN Some("Name") ELSE cat

\* _compile_clue, template 10: cat_left (cat_right) of a cleaned phrase.
\* A capitalized word that the Name category declares is a Name; any other
\* phrase is looked up in the value index.
cat_side(categories, phrase) ==
  IF /\ fullmatch_capitalized(phrase)
     /\ \E i \in DOMAIN categories :
           categories[i].key = "Name" /\ phrase \in Range(categories[i].values)
  THEN Some("Name")
  ELSE name_if_none(value_to_cat(categories, _norm(phrase)), phrase)

\* _compile_clue, lines 559-561 and the fallback: the adjacency constraint
\* when both sides have a category and the two differ.
next_to_constraint(cat_left, cat_right, clue, num_houses) ==
  IF cat_left # None /\ cat_right # None /\ cat_left # cat_right
  THEN _adjacent_by_values(cat_left[1], Interned(clue.left),
                           cat_right[1], Interned(clue.right), num_houses)
  ELSE NonBinding(clue)

\* _compile_clue: the one constraint the sentence compiles to.  A sentence
\* of form "next_to" matches template 10 (`L is next to R`); a sentence of
\* form "in_ord_house" (`The V is in the ORD house`, `The V is not in the
\* ORD house`) matches none of the twelve templates.
_compile_clue(clue, categories, num_houses) ==
  LET cat_of(phrase) == value_to_cat(categories, _norm(phrase)) IN
  CASE clue.form = "house_is" ->
         LET cat == IF HasCategory(categories, "Color") THEN "Color"
                    ELSE IF cat_of(clue.val) = None THEN "Color"
                    ELSE cat_of(clue.val)[1]
         IN _unary_equals(VarName(clue.k, cat), Interned(clue.val))
    [] clue.form = "lives_in_house" ->
         _unary_equals(VarName(clue.k, "Name"), Interned(clue.name))
    [] clue.form = "person_owns" ->
         IF cat_of(clue.val) # None
         THEN _unary_equals(VarName(clue.k, cat_of(clue.val)[1]),
                            Interned(clue.val))
         ELSE NonBinding(clue)
    [] clue.form = "lives_in_the" ->
         IF cat_of(clue.val) # None
         THEN _link_biimplication("Name", Interned(clue.name),
                                  cat_of(clue.val)[1], Interned(clue.val),
                                  num_houses)
         ELSE NonBinding(clue)
    [] clue.form = "contains" ->
         IF /\ cat_of(clue.val_a) # None
            /\ cat_of(clue.val_b) # None
            /\ cat_of(clue.val_a) # cat_of(clue.val_b)
         THEN _link_biimplication(cat_of(clue.val_a)[1], Interned(clue.val_a),
                                  cat_of(clue.val_b)[1], Interned(clue.val_b),
                                  num_houses)
         ELSE NonBinding(clue)
    [] clue.form = "does_not_live" ->
         IF cat_of(clue.val) # None
         THEN _forbid_pair_same_house("Name", Interned(clue.name),
                                      cat_of(clue.val)[1], Interned(clue.val),
                                      num_houses)
         ELSE NonBinding(clue)
    [] clue.form = "immediately_left" ->
         IF cat_of(clue.c1) = Some("Color") /\ cat_of(clue.c2) = Some("Color")
         THEN _immediately_left_of_color(Interned(clue.c1), Interned(clue.c2),
                                         num_houses)
         ELSE NonBinding(clue)
    [] clue.form = "next_to" ->
         next_to_constraint(cat_side(categories, clue.left),
                            cat_side(categories, clue.right), clue, num_houses)
    [] clue.form = "in_ord_house" -> NonBinding(clue)
    [] OTHER -> NonBinding(clue)

\* parse_puzzle, line 623: the Name category is inferred when missing.
WithNames(p) ==
  IF HasCategory(p.categories, "Name") THEN p.categories
  ELSE Append(p.categories,
              [key |-> "Name",
               values |-> _infer_names_from_clues(p.clues, p.num_houses)])

\* parse_puzzle, the arguments it builds for CSP(variables, constraints):
\* one variable per house and category, one AllDiff per category, one
\* constraint per clue.
parse_puzzle(p) ==
  LET categories == WithNames(p)
      n == Len(categories)
  IN [variables |->
        [k \in 1..(p.num_houses * n) |->
           LET cat == categories[((k - 1) % n) + 1] IN
           [name |-> VarName(((k - 1) \div n) + 1, cat.key),
            domain |-> {Interned(cat.values[j]) : j \in DOMAIN cat.values}]],
      constraints |->
        [i \in 1..n |->
           _alldiff_pred(categories[i].key,
                         [h \in 1..p.num_houses |-> VarName(h, categories[i].key)])]
        \o [i \in DOMAIN p.clues |->
              _compile_clue(p.clues[i], categories, p.num_houses)]]

(***************************************************************************)
(* CSP(variables, constraints).  A Variable is (name, domain).             *)
(***************************************************************************)

\* A construction that does not look for duplicate names.
CSP_unchecked(variables, constraints) ==
  LET variable_names == [i \in DOMAIN variables |-> variables[i].name] IN
  [raised |-> None,
   variable_names |-> variable_names,
   constraints |-> constraints,
   domains |-> [name \in Range(variable_names) |->
                  LET i == CHOOSE k \in DOMAIN variables :
                              variables[k].name = name
                  IN variables[i].domain],
   neighbors |-> neighbor_sets(variable_names, constraints)]

\* CSP.__post_init__: the exception it raises, or the derived fields
\* variable_names, domains and neighbors (as sets).
CSP(variables, constraints) ==
  LET variable_names == [i \in DOMAIN variables |-> variables[i].name] IN
  IF Cardinality(Range(variable_names)) # Len(variable_names)
  THEN [raised |-> Some("ValueError")]
  ELSE [raised |-> None,
        variable_names |-> variable_names,
        constraints |-> constraints,
        domains |-> [name \in Range(variable_names) |->
                       LET i == CHOOSE k \in DOMAIN variables :
                                   variables[k].name = name
                       IN variables[i].domain],
        neighbors |-> neighbor_sets(variable_names, constraints)]

\* The neighbor sets of a built CSP, each iterating in sorted order.
SortedNeighbors(built) ==
  [v \in Range(built.variable_names) |-> SortedNames(built.neighbors[v])]

\* parse_puzzle, line 654: CSP(variables=variables, constraints=constraints)
\* on the arguments it built.
BuildCSP(args) == CSP(args.variables, args.constraints)

\* The constructor has returned or raised: the CSP goes to solve, the
\* exception to the position `handler`.
HandOver(built, handler) ==
  IF built.raised # None
  THEN /\ raised' = built.raised
       /\ pc' = handler
       /\ UNCHANGED <<csp, heap>>
  ELSE /\ csp' = [variable_names |-> built.variable_names,
                  constraints |-> built.constraints,
                  neighbors |-> SortedNeighbors(built)]
       /\ heap' = <<built.domains>>
       /\ pc' = "solve"
       /\ UNCHANGED raised

(***************************************************************************)
(* The puzzles.                                                            *)
(***************************************************************************)

\* A puzzle has at most MaxClues clues.
MaxClues == 2

\* The category blocks of the puzzle descriptions.
Descriptions ==
  {<<[key |-> "Color", values |-> <<"red", "blue">>]>>,
   <<[key |-> "Color", values |-> <<"red", "blue", "green">>]>>,
   <<[key |-> "Food", values |-> <<"orange", "pear">>],
     [key |-> "Color", values |-> <<"orange", "blue">>]>>,
   <<[key |-> "Name", values |-> <<"Alice", "Bob">>],
     [key |-> "Color", values |-> <<"Red", "blue">>]>>,
   <<[key |-> "Pet", values |-> <<"dog", "cat">>]>>}

\* The clue sentences.
ClueMenu ==
  <<[form |-> "house_is", k |-> 1, val |-> "blue"],
    [form |-> "house_is", k |-> MaxHouses + 1, val |-> "red"],
    [form |-> "lives_in_house", name |-> "Alice", k |-> 2],
    [form |-> "person_owns", k |-> 1, val |-> "cat"],
    [form |-> "lives_in_the", name |-> "Bob", val |-> "blue"],
    [form |-> "contains", val_a |-> "blue", val_b |-> "pear"],
    [form |-> "does_not_live", name |-> "Alice", val |-> "red"],
    [form |-> "immediately_left", c1 |-> "red", c2 |-> "blue"],
    [form |-> "immediately_left", c1 |-> "orange", c2 |-> "blue"],
    [form |-> "other", caps |-> <<"Bob">>, alldiff |-> FALSE, listed |-> <<>>],
    [form |-> "other", caps |-> <<>>, alldiff |-> TRUE,
     listed |-> <<"House_1_Color", "House_1_Name">>],
    [form |-> "other", caps |-> <<>>, alldiff |-> TRUE,
     listed |-> <<"House_1_Name", "House_1_Name">>]>>

RECURSIVE PickClues(_)
\* The clues with index in I, in menu order.
PickClues(I) ==
  IF I = {} THEN <<>>
  ELSE LET m == CHOOSE i \in I : \A j \in I : i <= j
       IN <<ClueMenu[m]>> \o PickClues(I \ {m})

\* The puzzle records.
Puzzles ==
  {[num_houses |-> h, categories |-> d, clues |-> PickClues(I)] :
     h \in 1..MaxHouses, d \in Descriptions,
     I \in {J \in SUBSET DOMAIN ClueMenu : Cardinality(J) <= MaxClues}}

\* A puzzle record is about to be compiled and solved in a fresh process.
InitPuzzle ==
  /\ puzzle \in {Some(p) : p \in Puzzles}
  /\ csp = None
  /\ heap = <<>>
  /\ stack = <<>>
  /\ pc = "parse_puzzle"
  /\ ac3 = Ac3Idle
  /\ tracer = None
  /\ result = EmptyAssignment
  /\ run = 1
  /\ first = None
  /\ raised = None
  /\ call = None

\* csp = parse_puzzle(puzzle_json), up to and with its CSP(...) call.
ParsePuzzle ==
  /\ pc = "parse_puzzle"
  /\ HandOver(BuildCSP(parse_puzzle(puzzle[1])), "raised")
  /\ UNCHANGED <<stack, ac3, tracer, result, run, first, puzzle, call>>

NextPuzzle == ParsePuzzle \/ Next

\* solve(parse_puzzle(puzzle_json))
SpecPuzzle == InitPuzzle /\ [][NextPuzzle]_vars

(***************************************************************************)
(* Properties.                                                             *)
(***************************************************************************)

Names == Range(csp.variable_names)

\* The total assignments: one value of its canonical domain per variable.
TotalAssignments == {t \in [Names -> 1..MaxVal] : \A v \in Names : t[v] \in heap[1][v]}

\* The partial assignments over the canonical domains.
PartialAssignments ==
  UNION {{t \in [S -> 1..MaxVal] : \A v \in S : t[v] \in heap[1][v]} : S \in SUBSET Names}

\* t satisfies every constraint of the CSP.
Satisfies(t) == \A i \in DOMAIN csp.constraints : is_satisfied(csp.constraints[i], t)

\* t agrees with the partial assignment p.
Extends(t, p) == \A v \in DOMAIN p : v \in DOMAIN t /\ t[v] = p[v]

\* p can be extended to a total assignment satisfying every constraint.
Extendable(p) == \E t \in TotalAssignments : Extends(t, p) /\ Satisfies(t)

\* Every predicate is true on each partial assignment that can still be
\* extended to a satisfying one.
PredicatesAdmitExtendable ==
  \A p \in PartialAssignments : Extendable(p) => Satisfies(p)

Solved == pc = "done" /\ result # EmptyAssignment

Events(kind) == {i \in DOMAIN tracer[1].steps : tracer[1].steps[i].action_type = kind}

\* C1: whenever solve returns a non-empty assignment, its keys are exactly
\* the CSP's variable names, each is bound to a value of its canonical
\* domain, and every constraint of the CSP is satisfied by it.
C1_SolutionSatisfiesCSP ==
  Solved =>
    /\ DOMAIN result = Names
    /\ \A v \in Names : result[v] \in heap[1][v]
    /\ \A i \in DOMAIN csp.constraints : is_satisfied(csp.constraints[i], result)

\* A solution of a three-variable CSP found after a dead end.
C1_Witness ==
  /\ Solved
  /\ Len(csp.variable_names) = 3
  /\ Len(csp.constraints) = 2
  /\ Events("backtrack") # {}

\* C2 as claimed: if solve returns the empty mapping, no total assignment
\* satisfies all constraints (for CSPs whose predicates admit every
\* extendable partial assignment).
C2_EmptyMeansUnsatisfiable ==
  (pc = "done" /\ result = EmptyAssignment /\ PredicatesAdmitExtendable)
    => ~\E t \in TotalAssignments : Satisfies(t)

\* C2, amended: the same, for CSPs with at least one variable.
C2_EmptyMeansUnsatisfiableNonEmptyCSP ==
  (pc = "done" /\ result = EmptyAssignment /\ csp.variable_names # <<>>
     /\ PredicatesAdmitExtendable)
    => ~\E t \in TotalAssignments : Satisfies(t)

\* The search was exhausted: solve returned {} after backtracking out of
\* the first variable, every domain being non-empty.
C2_Witness ==
  /\ pc = "done"
  /\ result = EmptyAssignment
  /\ Len(csp.variable_names) = 3
  /\ \A v \in Names : heap[1][v] # {}
  /\ Events("backtrack") # {}
  /\ PredicatesAdmitExtendable

\* C3: two solves of the same CSP return identical assignments, whatever
\* order the neighbor sets (and with them the AC-3 worklist) are traversed
\* in.
C3_SameResult ==
  (pc = "done" /\ run = 2) => result = first[1].result

\* A second solve that found a solution with some neighbor set traversed
\* in another order than the first solve's.
C3_Witness ==
  /\ pc = "done"
  /\ run = 2
  /\ result # EmptyAssignment
  /\ \E v \in Names : csp.neighbors[v] # SortedNames(Range(csp.neighbors[v]))
  /\ Events("ac3") # {}

\* C4: two solves of the same CSP, each on a freshly reset tracer, record
\* identical trace event sequences, whatever order the neighbor sets are
\* traversed in.
C4_SameTrace ==
  (pc = "done" /\ run = 2) => tracer[1].steps = first[1].steps

\* Depth of the innermost _backtrack call: the recursive calls below the
\* call solve makes.
Depth == IF stack = <<>> THEN 0 ELSE Len(stack) - 1

\* C5: solve eventually returns, and the recursion never descends deeper
\* than the number of variables.
C5_Terminates ==
  /\ <>(pc = "done")
  /\ [](Depth <= Len(csp.variable_names))

\* The recursion at its deepest: one nested call per variable, reached
\* through AC-3 runs that revised domains.
C5_Witness ==
  /\ Len(csp.variable_names) = 3
  /\ Depth = 3
  /\ \E i \in Events("ac3") : tracer[1].steps[i].reason[2] > 0

\* C6: solve never changes the CSP's canonical domain map.
C6_CanonicalDomainsUnchanged == [][heap'[1] = heap[1]]_vars

\* solve has pruned its working copy and returned, solved or not.
C6_Witness ==
  /\ pc = "done"
  /\ ac3.variables_affected > 0
  /\ first = None

\* The domains are arc-consistent under the outer assignment.
ArcConsistent(domains, assignment) ==
  \A xi \in Names : \A xj \in Range(csp.neighbors[xi]) :
    \A a \in domains[xi] : \E b \in domains[xj] :
      \A i \in DOMAIN csp.constraints :
        (xi \in Range(csp.constraints[i].scope) /\ xj \in Range(csp.constraints[i].scope))
        => is_satisfied(csp.constraints[i], Bind(Bind(assignment, xi, a), xj, b))

\* The unary propagation _ac3 starts with emptied a domain: no arc was
\* processed and a variable under a unary constraint has no value left.
UnaryEmptied ==
  /\ ac3.arcs_processed = 0
  /\ \E v \in Names :
        /\ heap[ac3.domains][v] = {}
        /\ \E i \in DOMAIN csp.constraints : csp.constraints[i].scope = <<v>>

\* C7 as claimed: when AC-3 reports success the domains are arc-consistent,
\* and AC-3 reports failure exactly when revising some arc empties a domain.
C7_ArcConsistentOrRevisedEmpty ==
  pc = "returned" =>
    /\ ac3.ok = Some(TRUE) => ArcConsistent(heap[ac3.domains], ac3.assignment)
    /\ ac3.ok = Some(FALSE) <=> ac3.wiped

\* C7, amended: failure is reported exactly when revising some arc, or the
\* unary propagation that precedes the worklist, empties a domain.
C7_ArcConsistentOrEmptied ==
  pc = "returned" =>
    /\ ac3.ok = Some(TRUE) => ArcConsistent(heap[ac3.domains], ac3.assignment)
    /\ ac3.ok = Some(FALSE) <=> (ac3.wiped \/ UnaryEmptied)

\* Y in {1,2}, Z in {1}, Y = Z: AC-3 succeeds with Y = {1}, Z = {1}.
C7_Witness ==
  /\ pc = "returned"
  /\ run = 1
  /\ csp.constraints = <<equal_constraint("Y", "Z")>>
  /\ heap[1]["Y"] = {1, 2}
  /\ heap[1]["Z"] = {1}
  /\ ac3.assignment = EmptyAssignment
  /\ ac3.ok = Some(TRUE)
  /\ heap[ac3.domains]["Y"] = {1}
  /\ heap[ac3.domains]["Z"] = {1}

\* C8 as claimed: a second AC-3 run on the domains a first run left removes
\* no value.
C8_SecondRunRemovesNothing ==
  (pc = "returned" /\ run = 2) => heap[ac3.domains] = first[1].domains

\* C8, amended: a second AC-3 run on the domains left by a first run that
\* reported success removes no value.
C8_SecondRunAfterSuccessRemovesNothing ==
  (pc = "returned" /\ run = 2 /\ first[1].ok) => heap[ac3.domains] = first[1].domains

\* The second run has returned after a first run that pruned and succeeded.
C8_Witness ==
  /\ pc = "returned"
  /\ run = 2
  /\ first[1].ok
  /\ first[1].domains # heap[1]
  /\ ac3.arcs_processed > 0

\* The forward check of the innermost call has just reported success.
ForwardChecked == pc = "ac3_call" /\ ac3.caller = "backtrack"

\* C9: when forward checking after assigning v=x reports success, every
\* value it removed from a neighbor's domain cannot be extended to a
\* consistent assignment with the assignment made so far held fixed, and
\* every neighbor value that violates a constraint shared with v under the
\* current assignment has been removed.
C9_ForwardCheckSound ==
  ForwardChecked =>
    \A n \in Range(csp.neighbors[Top.var]) :
      /\ \A b \in heap[Top.domains][n] \ heap[Top.local_domains][n] :
            ~Extendable(Bind(Top.local_assignment, n, b))
      /\ \A b \in heap[Top.local_domains][n] :
            \A i \in DOMAIN csp.constraints :
              (Top.var \in Range(csp.constraints[i].scope)
                 /\ n \in Range(csp.constraints[i].scope))
              => is_satisfied(csp.constraints[i], Bind(Top.local_assignment, n, b))

\* AllDiff(X, Y), X = 1 leaves Y = {2}.
C9_Witness ==
  /\ ForwardChecked
  /\ csp.constraints = <<all_diff(<<"X", "Y">>)>>
  /\ Top.local_assignment = Bind(EmptyAssignment, "X", 1)
  /\ heap[Top.domains]["Y"] = {1, 2}
  /\ heap[Top.local_domains]["Y"] = {2}

\* C10: the variable chosen at a search step is unassigned, its domain is
\* of minimum size among the unassigned variables, and among those of
\* minimum size its name is the lexicographically smallest.
C10_MRV ==
  \A k \in DOMAIN stack :
    LET f == stack[k]
        size(v) == Cardinality(heap[f.domains][v])
    IN f.var # "" =>
         /\ f.var \in Names \ DOMAIN f.assignment
         /\ \A u \in Names \ DOMAIN f.assignment :
               /\ size(f.var) <= size(u)
               /\ (size(u) = size(f.var) /\ u # f.var) => Ord[f.var] < Ord[u]

\* Y was chosen although Z, declared before it, is unassigned with a domain
\* of the same size.
C10_Witness ==
  /\ pc = "loop"
  /\ Top.var = "Y"
  /\ "Z" \in Names \ DOMAIN Top.assignment
  /\ Cardinality(heap[Top.domains]["Z"]) = Cardinality(heap[Top.domains]["Y"])

\* The categories of the compiled puzzle, the inferred Name category
\* included.
Categories == WithNames(puzzle[1])

\* The variables House_1_C .. House_H_C of the category with key C.
HouseVars(key) == [h \in 1..puzzle[1].num_houses |-> VarName(h, key)]

\* The values the returned assignment gives House_1_C .. House_H_C.
Assigned(key) ==
  {result[HouseVars(key)[h]] : h \in DOMAIN HouseVars(key)}

\* The declared value set of the i-th category.
Declared(i) == {Interned(w) : w \in Range(Categories[i].values)}

\* solve has returned a non-empty assignment for the compiled puzzle.
PuzzleSolved == puzzle # None /\ pc = "done" /\ result # EmptyAssignment

\* C11 (as stated): in any non-empty assignment solve returns for a compiled
\* puzzle, the values of House_1_C .. House_H_C are pairwise distinct and
\* together are the declared value set of C, for every category C.
C11_CategoryValuesAreDeclaredSet ==
  PuzzleSolved =>
    \A i \in DOMAIN Categories :
       LET scope == HouseVars(Categories[i].key) IN
       /\ \A h, g \in DOMAIN scope :
             h # g => result[scope[h]] # result[scope[g]]
       /\ Assigned(Categories[i].key) = Declared(i)

\* C11 (amended): the values of House_1_C .. House_H_C are pairwise
\* distinct and drawn from the declared value set of C; they are the whole
\* declared set when C declares exactly H values.
C11_CategoryValuesDistinctAndDeclared ==
  PuzzleSolved =>
    \A i \in DOMAIN Categories :
       LET scope == HouseVars(Categories[i].key) IN
       /\ \A h, g \in DOMAIN scope :
             h # g => result[scope[h]] # result[scope[g]]
       /\ Assigned(Categories[i].key) \subseteq Declared(i)
       /\ Cardinality(Declared(i)) = puzzle[1].num_houses
            => Assigned(Categories[i].key) = Declared(i)

\* A puzzle of two houses with a two-valued category and a clue is solved.
C11_Witness ==
  /\ PuzzleSolved
  /\ puzzle[1].num_houses = 2
  /\ puzzle[1].clues # <<>>
  /\ \A i \in DOMAIN Categories : Cardinality(Declared(i)) = 2
  /\ Len(puzzle[1].categories) = 2

\* C12: in every CSP parse_puzzle produces, every variable named in the
\* scope of a constraint is a variable of that CSP.
C12_ScopesNameCSPVariables ==
  (puzzle # None /\ csp # None) =>
    \A i \in DOMAIN csp.constraints :
       Range(csp.constraints[i].scope) \subseteq Range(csp.variable_names)

(***************************************************************************)
(* Constraint.is_satisfied called on its own.                              *)
(***************************************************************************)

\* No CSP is built and no solve is running.
NoSolve ==
  /\ csp = None
  /\ heap = <<>>
  /\ stack = <<>>
  /\ ac3 = Ac3Idle
  /\ result = EmptyAssignment
  /\ run = 1
  /\ first = None
  /\ puzzle = None
  /\ raised = None

\* The variables of h houses with the categories Color and Pet.
HouseNames(h) == {VarName(i, cat) : i \in 1..h, cat \in {"Color", "Pet"}}

\* The constraints the model constructors and the builders of the clue
\* compiler make for h houses.
BuiltConstraints(h) ==
  {all_diff([i \in 1..h |-> VarName(i, "Color")]),
   equals(VarName(1, "Color"), 1),
   _alldiff_pred("Pet", [i \in 1..h |-> VarName(i, "Pet")]),
   _unary_equals(VarName(h, "Pet"), 2),
   _link_biimplication("Color", 1, "Pet", 2, h),
   _forbid_pair_same_house("Color", 1, "Pet", 2, h),
   _immediately_left_of_color(1, 2, h),
   _immediately_left_of_color(2, 2, h),
   _adjacent_by_values("Color", 1, "Pet", 2, h),
   _ordered_by_values("Color", 1, "Color", 2, h, "left"),
   _ordered_by_values("Color", 2, "Color", 1, h, "right"),
   _distance_by_values("Color", 1, "Pet", 1, h, 0),
   _distance_by_values("Color", 1, "Pet", 2, h, 1)}

\* The partial assignments of the variables of h houses.
HouseAssignments(h) ==
  UNION {[S -> 1..MaxVal] : S \in SUBSET HouseNames(h)}

\* constraint.is_satisfied(assignment) is about to be called.
InitPredicate ==
  /\ NoSolve
  /\ tracer = None
  /\ pc = "call"
  /\ \E h \in 1..MaxHouses :
        call \in {Some([op |-> "is_satisfied", num_houses |-> h,
                        constraint |-> c, assignment |-> a, ret |-> None]) :
                   c \in BuiltConstraints(h), a \in HouseAssignments(h)}

\* Constraint.is_satisfied(assignment)
IsSatisfied ==
  /\ pc = "call"
  /\ call # None
  /\ call[1].op = "is_satisfied"
  /\ call' = Some([call[1] EXCEPT
                     !.ret = Some(is_satisfied(call[1].constraint,
                                               call[1].assignment))])
  /\ pc' = "returned"
  /\ UNCHANGED <<csp, heap, stack, ac3, tracer, result, run, first, puzzle,
                 raised>>

SpecPredicate == InitPredicate /\ [][IsSatisfied]_vars

\* The per-category AllDiffs of h houses hold on t.
CategoryAllDiffs(h, t) ==
  \A cat \in {"Color", "Pet"} :
     NoDuplicates([i \in 1..h |-> VarName(i, cat)], t)

\* a can be extended to a total assignment of the variables of h houses
\* that satisfies c and the per-category AllDiffs.
ExtendableFor(c, a, h) ==
  \E t \in [HouseNames(h) -> 1..MaxVal] :
     Extends(t, a) /\ is_satisfied(c, t) /\ CategoryAllDiffs(h, t)

\* C13: a predicate of the model constructors and the clue compiler returns
\* true on every partial assignment that can be extended to a total
\* assignment satisfying the constraint and the per-category AllDiffs; so
\* it returns false only when no such extension exists.
C13_PredicateTrueWhenExtendable ==
  (call # None /\ call[1].op = "is_satisfied" /\ call[1].ret # None) =>
    (ExtendableFor(call[1].constraint, call[1].assignment, call[1].num_houses)
       => call[1].ret = Some(TRUE))

\* A builder's predicate returned true on a proper partial assignment
\* that binds part of its scope and is extendable.
C13_Witness ==
  /\ call # None
  /\ call[1].op = "is_satisfied"
  /\ call[1].ret = Some(TRUE)
  /\ call[1].constraint.kind = "_immediately_left_of_color"
  /\ call[1].num_houses = MaxHouses
  /\ DOMAIN call[1].assignment = {VarName(1, "Color")}
  /\ ExtendableFor(call[1].constraint, call[1].assignment, call[1].num_houses)

(***************************************************************************)
(* A compiled puzzle solved twice: as compiled, and then without the       *)
(* constraints that have no predicate (the clue sentences no template      *)
(* compiled), on a tracer that was reset.                                  *)
(***************************************************************************)

\* The constraints of cs that have a predicate.
WithPredicate(cs) == SelectSeq(cs, LAMBDA c : c.kind # "none")

\* The puzzles with a clue sentence that is kept without a predicate.
InitUnrecognized ==
  /\ InitPuzzle
  /\ \E i \in DOMAIN puzzle[1].clues :
        _compile_clue(puzzle[1].clues[i], WithNames(puzzle[1]),
                      puzzle[1].num_houses).kind = "none"

\* The first solve has returned; reset_tracer(), and the CSP is built
\* from the same variables and the constraints that have a predicate,
\* and solved.
SolveWithout ==
  /\ pc = "done"
  /\ run = 1
  /\ puzzle # None
  /\ LET built == CSP([i \in DOMAIN csp.variable_names |->
                         [name |-> csp.variable_names[i],
                          domain |-> heap[1][csp.variable_names[i]]]],
                      WithPredicate(csp.constraints))
     IN csp' = [variable_names |-> built.variable_names,
                constraints |-> built.constraints,
                neighbors |-> SortedNeighbors(built)]
  /\ first' = Some([result |-> result, steps |-> tracer[1].steps])
  /\ tracer' = None
  /\ run' = 2
  /\ pc' = "solve"
  /\ ac3' = Ac3Idle
  /\ result' = EmptyAssignment
  /\ UNCHANGED <<heap, stack, puzzle, raised, call>>

NextUnrecognized == ParsePuzzle \/ Next \/ SolveWithout

SpecUnrecognized == InitUnrecognized /\ [][NextUnrecognized]_vars

\* The assignments of the CSP variables a scope names.
ScopeAssignments(scope) ==
  LET S == Range(scope) \cap Names
  IN {t \in [S -> UNION {heap[1][v] : v \in Names}] :
        \A v \in S : t[v] \in heap[1][v]}

\* C14: a clue sentence kept as a constraint with no predicate is satisfied
\* by every assignment, and solving the CSP without it gives the same
\* assignment and the same trace events as solving the CSP with it.
C14_NoPredicateDoesNotAffectSearch ==
  /\ (puzzle # None /\ csp # None) =>
       \A i \in DOMAIN csp.constraints :
          csp.constraints[i].kind = "none" =>
            \A t \in ScopeAssignments(csp.constraints[i].scope) :
               is_satisfied(csp.constraints[i], t)
  /\ (puzzle # None /\ run = 2 /\ pc = "done") =>
       /\ result = first[1].result
       /\ tracer[1].steps = first[1].steps

(***************************************************************************)
(* CSP(variables, constraints) called on its own, with any variable list   *)
(* (names may repeat) and constraints of any scope (a scope may name a     *)
(* variable that is not in the list, or a variable twice).                 *)
(***************************************************************************)

\* The sequences over S of length lo..hi.
SeqsOver(S, lo, hi) == UNION {[1..n -> S] : n \in lo..hi}

\* The variable lists: the i-th variable has the domain 1..i.
VariableLists ==
  {[i \in DOMAIN names |-> [name |-> names[i], domain |-> 1..i]] :
     names \in SeqsOver(Range(AllNames), 0, Len(AllNames))}

\* The constraint lists: at most MaxCons AllDiffs of two or three names.
ScopedLists ==
  {[i \in DOMAIN scopes |-> all_diff(scopes[i])] :
     scopes \in SeqsOver(SeqsOver(Range(AllNames), 2, 3), 0, MaxCons)}

\* CSP(variables, constraints) is about to be called.
InitBuild ==
  /\ NoSolve
  /\ tracer = None
  /\ pc = "call"
  /\ call \in {Some([op |-> "CSP", variables |-> vs, constraints |-> cs]) :
                vs \in VariableLists, cs \in ScopedLists}

\* CSP(variables, constraints): __post_init__ raises, or the object is
\* built, its neighbor sets iterating in some order.
Construct ==
  /\ pc = "call"
  /\ call # None
  /\ call[1].op = "CSP"
  /\ LET built == CSP(call[1].variables, call[1].constraints)
     IN IF built.raised # None
        THEN /\ raised' = built.raised
             /\ pc' = "raised"
             /\ UNCHANGED <<csp, heap>>
        ELSE /\ \E order \in NeighborOrders(built.variable_names,
                                             built.constraints) :
                  csp' = [variable_names |-> built.variable_names,
                          constraints |-> built.constraints,
                          neighbors |-> order]
             /\ heap' = <<built.domains>>
             /\ pc' = "built"
             /\ UNCHANGED raised
  /\ UNCHANGED <<stack, ac3, tracer, result, run, first, puzzle, call>>

SpecBuild == InitBuild /\ [][Construct]_vars

\* The call CSP(variables, constraints) has ended.
Constructed == call # None /\ call[1].op = "CSP" /\ pc # "call"

\* The variable list of the call holds a name twice.
DuplicateNames ==
  \E i, j \in DOMAIN call[1].variables :
     i # j /\ call[1].variables[i].name = call[1].variables[j].name

C17_NeighborsSymmetric ==
  (Constructed /\ csp # None) =>
    \A v, n \in Range(csp.variable_names) :
       n \in Range(csp.neighbors[v]) <=> v \in Range(csp.neighbors[n])

\* A CSP was built from a scope that names a variable twice and a
\* variable the CSP does not have, and two of its variables are neighbors.
C17_Witness ==
  /\ Constructed
  /\ csp # None
  /\ \E i \in DOMAIN csp.constraints :
        LET scope == csp.constraints[i].scope IN
        /\ \E j, k \in DOMAIN scope : j # k /\ scope[j] = scope[k]
        /\ ~(Range(scope) \subseteq Range(csp.variable_names))
  /\ \E v \in Range(csp.variable_names) : csp.neighbors[v] # <<>>

\* The constraints of the compiled CSP whose predicate is an _alldiff_pred
\* of the category with key C.
AllDiffsOver(key) ==
  {j \in DOMAIN csp.constraints :
     /\ csp.constraints[j].kind = "_alldiff_pred"
     /\ csp.constraints[j].category = key}

MaxSteps == 3

LogOps ==
  {"log_assign", "log_backtrack", "log_constraint_check",
   "log_domain_reduction", "log_ac3_run", "log_forward_check",
   "log_solution_found"}

\* The process has started; the global tracer does not exist yet.
InitTrace ==
  /\ NoSolve
  /\ tracer = None
  /\ pc = "trace"
  /\ call = None

\* get_tracer().log_*(...), with arguments as the solver passes them.
LogCall(op) ==
  LET g == get_tracer(tracer) IN
  CASE op = "log_assign" -> log_assign(g, "X", 1, 2, 1)
    [] op = "log_backtrack" -> log_backtrack(g, "X")
    [] op = "log_constraint_check" ->
         log_constraint_check(g, "X == 1", TRUE, Some("X"))
    [] op = "log_domain_reduction" -> log_domain_reduction(g, "X", 1)
    [] op = "log_ac3_run" -> log_ac3_run(g, 1, 2)
    [] op = "log_forward_check" -> log_forward_check(g, "X", 1)
    [] op = "log_solution_found" -> log_solution_found(g, 1)

\* One log operation on the global tracer.
LogOperation ==
  /\ pc = "trace"
  /\ IF tracer = None THEN TRUE ELSE tracer[1].step_counter < MaxSteps
  /\ \E op \in LogOps :
        /\ tracer' = LogCall(op)
        /\ call' = Some([op |-> op])
  /\ UNCHANGED <<csp, heap, stack, pc, ac3, result, run, first, puzzle, raised>>

\* enable_tracing(enabled)
EnableTracing ==
  /\ pc = "trace"
  /\ \E enabled \in BOOLEAN :
        /\ tracer' = enable_tracing(tracer, enabled)
        /\ call' = Some([op |-> "enable_tracing"])
  /\ UNCHANGED <<csp, heap, stack, pc, ac3, result, run, first, puzzle, raised>>

\* reset_tracer()
ResetTracer ==
  /\ pc = "trace"
  /\ tracer' = reset_tracer(tracer)
  /\ call' = Some([op |-> "reset_tracer"])
  /\ UNCHANGED <<csp, heap, stack, pc, ac3, result, run, first, puzzle, raised>>

NextTrace == LogOperation \/ EnableTracing \/ ResetTracer

SpecTrace == InitTrace /\ [][NextTrace]_vars

\* C18: after any sequence of log operations, with tracing toggled in
\* between, the step counter is the number of recorded events and the
\* k-th recorded event carries step number k.
C18_StepNumbersCountEvents ==
  (pc = "trace" /\ tracer # None) =>
    /\ tracer[1].step_counter = Len(tracer[1].steps)
    /\ \A k \in DOMAIN tracer[1].steps : tracer[1].steps[k].step_number = k

\* MaxSteps events of different kinds were recorded, a constraint check
\* first and a backtrack last.
C18_Witness ==
  /\ pc = "trace"
  /\ tracer # None
  /\ call = Some([op |-> "log_backtrack"])
  /\ Len(tracer[1].steps) = MaxSteps
  /\ tracer[1].steps[1].action_type = "constraint_check"
  /\ tracer[1].steps[MaxSteps].action_type = "backtrack"

\* C19: while tracing is disabled a log operation leaves the tracer
\* unchanged, and enable_tracing keeps the events and the counter, so that
\* numbering resumes from the unchanged counter.
C19_DisabledLogLeavesTracerUnchanged ==
  [][/\ (tracer # None /\ ~tracer[1].enabled
           /\ call' # None /\ call'[1].op \in LogOps)
          => tracer' = tracer
     /\ (tracer # None /\ call' # None /\ call'[1].op = "enable_tracing")
          => /\ tracer'[1].steps = tracer[1].steps
             /\ tracer'[1].step_counter = tracer[1].step_counter]_vars

\* A log operation ran on a disabled tracer that holds events.
C19_Witness ==
  /\ pc = "trace"
  /\ tracer # None
  /\ ~tracer[1].enabled
  /\ tracer[1].step_counter > 0
  /\ call = Some([op |-> "log_assign"])

\* The puzzle declares exactly H colors, the colors v1 and v2 among them.
HColorsInclude(v1, v2) ==
  \E i \in DOMAIN Categories :
     /\ Categories[i].key = "Color"
     /\ Cardinality(Declared(i)) = puzzle[1].num_houses
     /\ {v1, v2} \subseteq Range(Categories[i].values)

\* The house whose color is v in the returned assignment.
position(v) ==
  CHOOSE h \in 1..puzzle[1].num_houses :
     result[VarName(h, "Color")] = Interned(v)

\* The clues `The V1 house is immediately to the left of the V2 house` of
\* the puzzle, V1 and V2 among its H colors.
LeftOfClues ==
  {i \in DOMAIN puzzle[1].clues :
     /\ puzzle[1].clues[i].form = "immediately_left"
     /\ HColorsInclude(puzzle[1].clues[i].c1, puzzle[1].clues[i].c2)}

\* C20 (as stated): for a puzzle whose H colors include V1 and V2 and which
\* has the clue `The V1 house is immediately to the left of the V2 house`,
\* a returned assignment has position(V1) + 1 = position(V2).
C20_LeftOfClueHolds ==
  PuzzleSolved =>
    \A i \in LeftOfClues :
       position(puzzle[1].clues[i].c1) + 1 = position(puzzle[1].clues[i].c2)

\* C20 (amended): the same, when no category declared before Color
\* declares V1 or V2, so that both resolve to Color.
C20_LeftOfClueHoldsWhenColorsResolve ==
  PuzzleSolved =>
    \A i \in LeftOfClues :
       (/\ value_to_cat(Categories, _norm(puzzle[1].clues[i].c1)) = Some("Color")
        /\ value_to_cat(Categories, _norm(puzzle[1].clues[i].c2)) = Some("Color"))
       => position(puzzle[1].clues[i].c1) + 1 = position(puzzle[1].clues[i].c2)

\* A puzzle of MaxHouses houses and as many colors with a binding
\* immediately-left clue and a second clue is solved.
C20_Witness ==
  /\ PuzzleSolved
  /\ puzzle[1].num_houses = MaxHouses
  /\ Len(puzzle[1].clues) = 2
  /\ \E i \in LeftOfClues :
        /\ value_to_cat(Categories, _norm(puzzle[1].clues[i].c1)) = Some("Color")
        /\ value_to_cat(Categories, _norm(puzzle[1].clues[i].c2)) = Some("Color")

(***************************************************************************)
(* Puzzles with position clues: `L is next to R` and `V is (not) in the    *)
(* ORD house`.                                                             *)
(***************************************************************************)

\* The category blocks of the descriptions.
PositionDescriptions ==
  {<<[key |-> "Color", values |-> <<"red", "blue">>]>>,
   <<[key |-> "Color", values |-> <<"red", "blue", "green">>]>>,
   <<[key |-> "Color", values |-> <<"red", "blue", "green">>],
     [key |-> "Pet", values |-> <<"dog", "cat", "turtle">>]>>,
   <<[key |-> "Name", values |-> <<"Alice", "Bob", "Mallory">>],
     [key |-> "Pet", values |-> <<"dog", "cat", "turtle">>]>>}

\* The sentence `L is next to R` (`The L house is next to ...` for a
\* color), with its capitalized tokens.
NextTo(left, right) ==
  [form |-> "next_to", left |-> left, right |-> right,
   caps |-> CapsOf(left) \o CapsOf(right)]

\* The sentence `The V is in the ORD house`, or `The V is not in the ORD
\* house`, with its capitalized tokens.
InOrdHouse(val, ord, negated) ==
  [form |-> "in_ord_house", val |-> val, ord |-> ord, negated |-> negated,
   caps |-> CapsOf(val)]

\* The clue sentences: `The red house is next to the blue house`,
\* `The red house is next to the dog`, `Alice is next to the dog`,
\* `Alice is next to Bob`, `The cat is next to the red house`,
\* `The red is in the first house`, `The blue is not in the second house`,
\* `The dog is in the third house`, `House 1 is green`.
PositionClueMenu ==
  <<NextTo("red", "blue"),
    NextTo("red", "dog"),
    NextTo("Alice", "dog"),
    NextTo("Alice", "Bob"),
    NextTo("cat", "red"),
    InOrdHouse("red", 1, FALSE),
    InOrdHouse("blue", 2, TRUE),
    InOrdHouse("dog", 3, FALSE),
    [form |-> "house_is", k |-> 1, val |-> "green"]>>

RECURSIVE PickPositionClues(_)
\* The clues with index in I, in menu order.
PickPositionClues(I) ==
  IF I = {} THEN <<>>
  ELSE LET m == CHOOSE i \in I : \A j \in I : i <= j
       IN <<PositionClueMenu[m]>> \o PickPositionClues(I \ {m})

\* The puzzle records.
PositionPuzzles ==
  {[num_houses |-> h, categories |-> d, clues |-> PickPositionClues(I)] :
     h \in 2..MaxHouses, d \in PositionDescriptions,
     I \in {J \in SUBSET DOMAIN PositionClueMenu : Cardinality(J) <= MaxClues}}

\* A puzzle record with position clues is about to be compiled and solved.
InitPosition ==
  /\ puzzle \in {Some(p) : p \in PositionPuzzles}
  /\ csp = None
  /\ heap = <<>>
  /\ stack = <<>>
  /\ pc = "parse_puzzle"
  /\ ac3 = Ac3Idle
  /\ tracer = None
  /\ result = EmptyAssignment
  /\ run = 1
  /\ first = None
  /\ raised = None
  /\ call = None

SpecPosition == InitPosition /\ [][NextPuzzle]_vars

\* The house at which the returned assignment places the declared value v:
\* the house whose variable of v's category holds v.
pos(v) ==
  CHOOSE h \in 1..puzzle[1].num_houses :
     result[VarName(h, value_to_cat(Categories, _norm(v))[1])] = Interned(v)

\* v is a declared value that the returned assignment places.
Placed(v) ==
  /\ value_to_cat(Categories, _norm(v)) # None
  /\ \E h \in 1..puzzle[1].num_houses :
        result[VarName(h, value_to_cat(Categories, _norm(v))[1])] = Interned(v)

\* The clues `L is next to R` of the puzzle whose two referents are
\* declared values.
NextToClues ==
  {i \in DOMAIN puzzle[1].clues :
     /\ puzzle[1].clues[i].form = "next_to"
     /\ value_to_cat(Categories, _norm(puzzle[1].clues[i].left)) # None
     /\ value_to_cat(Categories, _norm(puzzle[1].clues[i].right)) # None}

\* C21: for a puzzle with a clue `L is next to R` whose two referents are
\* declared values, a returned assignment that places both has
\* |pos(L) - pos(R)| = 1, also when L and R are values of one category.
C21_NextToClueHolds ==
  PuzzleSolved =>
    \A i \in NextToClues :
       (Placed(puzzle[1].clues[i].left) /\ Placed(puzzle[1].clues[i].right))
       => abs(pos(puzzle[1].clues[i].left) - pos(puzzle[1].clues[i].right)) = 1

\* The clues `The V is in the ORD house` and `The V is not in the ORD
\* house` of the puzzle, V a declared value and ORD a house of the puzzle.
OrdinalClues ==
  {i \in DOMAIN puzzle[1].clues :
     /\ puzzle[1].clues[i].form = "in_ord_house"
     /\ value_to_cat(Categories, _norm(puzzle[1].clues[i].val)) # None
     /\ puzzle[1].clues[i].ord <= puzzle[1].num_houses}

\* The variable of V's category at house ord(ORD), for the i-th clue.
OrdinalVar(i) ==
  VarName(puzzle[1].clues[i].ord,
          value_to_cat(Categories, _norm(puzzle[1].clues[i].val))[1])

\* C22: a clue `V is in the ORD house` compiles to a binding constraint, and
\* a returned assignment gives V's category variable at house ord(ORD) the
\* value V; a clue `V is not in the ORD house` compiles to a binding
\* constraint, and a returned assignment gives that variable another value.
C22_OrdinalClueBinds ==
  (puzzle # None /\ csp # None) =>
    \A i \in OrdinalClues :
       /\ csp.constraints[Len(Categories) + i].kind # "none"
       /\ PuzzleSolved =>
            IF puzzle[1].clues[i].negated
            THEN result[OrdinalVar(i)] # Interned(puzzle[1].clues[i].val)
            ELSE result[OrdinalVar(i)] = Interned(puzzle[1].clues[i].val)

(***************************************************************************)
(* Description labels.  A label is the text of a description line before   *)
(* its colon, held as its sequence of code points so that lower-casing and *)
(* the substring tests of _canonical_category_name are computed.  The      *)
(* labels carry no punctuation, dashes or repeated blanks, so _strip_punct *)
(* and the blank folding of _norm leave them as they are.                  *)
(***************************************************************************)

\* The labels of the description lines.
Labels ==
  <<
    \* The people are of nationalities
    <<84, 104, 101, 32, 112, 101, 111, 112, 108, 101, 32, 97, 114, 101, 32, 111, 102, 32, 110, 97, 116, 105, 111, 110, 97, 108, 105, 116, 105, 101, 115>>,
    \* People have unique favorite book genres
    <<80, 101, 111, 112, 108, 101, 32, 104, 97, 118, 101, 32, 117, 110, 105, 113, 117, 101, 32, 102, 97, 118, 111, 114, 105, 116, 101, 32, 98, 111, 111, 107, 32, 103, 101, 110, 114, 101, 115>>,
    \* People use unique phone models
    <<80, 101, 111, 112, 108, 101, 32, 117, 115, 101, 32, 117, 110, 105, 113, 117, 101, 32, 112, 104, 111, 110, 101, 32, 109, 111, 100, 101, 108, 115>>,
    \* Colors
    <<67, 111, 108, 111, 114, 115>>,
    \* Pets
    <<80, 101, 116, 115>>,
    \* Book genres
    <<66, 111, 111, 107, 32, 103, 101, 110, 114, 101, 115>>,
    \* Phone models
    <<80, 104, 111, 110, 101, 32, 109, 111, 100, 101, 108, 115>>,
    \* Nationalities
    <<78, 97, 116, 105, 111, 110, 97, 108, 105, 116, 105, 101, 115>>,
    \* Nationality
    <<78, 97, 116, 105, 111, 110, 97, 108, 105, 116, 121>>,
    \* Hobbies
    <<72, 111, 98, 98, 105, 101, 115>>>>

\* The if/elif chain of _canonical_category_name: the substrings tested,
\* in order, and the key each yields.
CanonicalTable ==
  <<
    \* name, person, people, friend
    [subs |-> {<<110, 97, 109, 101>>,
               <<112, 101, 114, 115, 111, 110>>,
               <<112, 101, 111, 112, 108, 101>>,
               <<102, 114, 105, 101, 110, 100>>},
     key |-> "Name"],
    \* color
    [subs |-> {<<99, 111, 108, 111, 114>>},
     key |-> "Color"],
    \* nationality
    [subs |-> {<<110, 97, 116, 105, 111, 110, 97, 108, 105, 116, 121>>},
     key |-> "Nationality"],
    \* book
    [subs |-> {<<98, 111, 111, 107>>},
     key |-> "Book"],
    \* food, lunch, meal
    [subs |-> {<<102, 111, 111, 100>>,
               <<108, 117, 110, 99, 104>>,
               <<109, 101, 97, 108>>},
     key |-> "Food"],
    \* drink
    [subs |-> {<<100, 114, 105, 110, 107>>},
     key |-> "Drink"],
    \* animal, pet, pets
    [subs |-> {<<97, 110, 105, 109, 97, 108>>,
               <<112, 101, 116>>,
               <<112, 101, 116, 115>>},
     key |-> "Pet"],
    \* occupation, job
    [subs |-> {<<111, 99, 99, 117, 112, 97, 116, 105, 111, 110>>,
               <<106, 111, 98>>},
     key |-> "Occupation"],
    \* phone
    [subs |-> {<<112, 104, 111, 110, 101>>},
     key |-> "Phone"],
    \* music
    [subs |-> {<<109, 117, 115, 105, 99>>},
     key |-> "Music"],
    \* height
    [subs |-> {<<104, 101, 105, 103, 104, 116>>},
     key |-> "Height"],
    \* child
    [subs |-> {<<99, 104, 105, 108, 100>>},
     key |-> "Child"]>>

\* s.lower() on code points.
lower(s) == [i \in DOMAIN s |-> IF s[i] \in 65..90 THEN s[i] + 32 ELSE s[i]]

\* k in s
Contains(s, k) ==
  \E i \in 0..(Len(s) - Len(k)) : SubSeq(s, i + 1, i + Len(k)) = k

\* _canonical_category_name(raw, unknown_idx_ref, raw_to_key): the key, and
\* unknown_idx_ref[0] and raw_to_key as the call leaves them.
_canonical_category_name(raw, unknown_idx, raw_to_key) ==
  LET raw_key == lower(raw)
      hits == {j \in DOMAIN CanonicalTable :
                 \E k \in CanonicalTable[j].subs : Contains(raw_key, k)}
      key == IF hits = {} THEN "Attr_" \o ToString(unknown_idx)
             ELSE CanonicalTable[CHOOSE j \in hits : \A h \in hits : j <= h].key
  IN IF raw_key \in DOMAIN raw_to_key
     THEN [key |-> raw_to_key[raw_key], unknown_idx |-> unknown_idx,
           raw_to_key |-> raw_to_key]
     ELSE [key |-> key,
           unknown_idx |-> IF hits = {} THEN unknown_idx + 1 ELSE unknown_idx,
           raw_to_key |-> (raw_key :> key) @@ raw_to_key]

\* categories[key] = values on a dict kept in insertion order.
SetItem(categories, key, values) ==
  IF \E i \in DOMAIN categories : categories[i].key = key
  THEN [i \in DOMAIN categories |->
          IF categories[i].key = key THEN [key |-> key, values |-> values]
          ELSE categories[i]]
  ELSE Append(categories, [key |-> key, values |-> values])

RECURSIVE ExtractFrom(_, _)
\* The loop of _extract_categories after the first i category lines:
\* categories, unknown_idx_ref[0] and raw_to_key.
ExtractFrom(lines, i) ==
  IF i = 0
  THEN [categories |-> <<>>, unknown_idx |-> 1, raw_to_key |-> <<>>]
  ELSE LET before == ExtractFrom(lines, i - 1)
           named == _canonical_category_name(lines[i].label, before.unknown_idx,
                                             before.raw_to_key)
       IN [categories |-> IF lines[i].values # <<>>
                          THEN SetItem(before.categories, named.key,
                                       lines[i].values)
                          ELSE before.categories,
           unknown_idx |-> named.unknown_idx,
           raw_to_key |-> named.raw_to_key]

\* _extract_categories, on the lines `label: values` of the description.
_extract_categories(lines) == ExtractFrom(lines, Len(lines)).categories

\* A description has at most MaxLines category lines.
MaxLines == 3

\* The value lists of the description lines, by line number.
LineValues ==
  <<<<"red", "blue", "green">>, <<"cat", "dog", "turtle">>,
    <<"orange", "pear", "blue">>>>

\* The descriptions: up to MaxLines lines, each with a label of Labels.
DescriptionTexts ==
  UNION {{[i \in 1..n |-> [label |-> Labels[f[i]],
                           values |-> LineValues[((i - 1) % Len(LineValues)) + 1]]] :
            f \in [1..n -> DOMAIN Labels]} : n \in 1..MaxLines}

\* A puzzle text is about to be parsed in a fresh process.
InitLabels ==
  /\ puzzle \in {Some([num_houses |-> h, lines |-> d, clues |-> <<>>]) :
                   h \in 1..MaxHouses, d \in DescriptionTexts}
  /\ csp = None
  /\ heap = <<>>
  /\ stack = <<>>
  /\ pc = "parse_puzzle"
  /\ ac3 = Ac3Idle
  /\ tracer = None
  /\ result = EmptyAssignment
  /\ run = 1
  /\ first = None
  /\ raised = None
  /\ call = None

\* csp = parse_puzzle(puzzle_json), from the description text on.
ParseText ==
  /\ pc = "parse_puzzle"
  /\ LET args == parse_puzzle([num_houses |-> puzzle[1].num_houses,
                               categories |-> _extract_categories(puzzle[1].lines),
                               clues |-> puzzle[1].clues])
         built == CSP(args.variables, args.constraints)
     IN IF built.raised # None
        THEN /\ raised' = built.raised
             /\ pc' = "raised"
             /\ UNCHANGED <<csp, heap>>
        ELSE /\ csp' = [variable_names |-> built.variable_names,
                        constraints |-> built.constraints,
                        neighbors |-> SortedNeighbors(built)]
             /\ heap' = <<built.domains>>
             /\ pc' = "solve"
             /\ UNCHANGED raised
  /\ UNCHANGED <<stack, ac3, tracer, result, run, first, puzzle, call>>

\* parse_puzzle(puzzle_json)
SpecLabels == InitLabels /\ [][ParseText]_vars

\* The lines of the parsed description whose label contains sub.
LinesWith(sub) ==
  {i \in DOMAIN puzzle[1].lines : Contains(lower(puzzle[1].lines[i].label), sub)}

\* C23: the compiled CSP has the variable House_1_BookGenre when a label of
\* the description contains `book genre`, House_1_PhoneModel when one
\* contains `phone model`, and House_1_Nationality when one is about
\* nationalities.
C23_CompoundLabelsYieldCompoundKeys ==
  (puzzle # None /\ csp # None) =>
    /\ LinesWith(<<98, 111, 111, 107, 32, 103, 101, 110, 114, 101>>) # {}
         => VarName(1, "BookGenre") \in Range(csp.variable_names)
    /\ LinesWith(<<112, 104, 111, 110, 101, 32, 109, 111, 100, 101, 108>>) # {}
         => VarName(1, "PhoneModel") \in Range(csp.variable_names)
    /\ LinesWith(<<110, 97, 116, 105, 111, 110, 97, 108, 105, 116>>) # {}
         => VarName(1, "Nationality") \in Range(csp.variable_names)

(***************************************************************************)
(* solve_puzzle, on the simple 3x3 puzzle of                               *)
(* tests/test_parser_simple_clues.py and its variants.                     *)
(***************************************************************************)

\* `Colors: orange, blue, green.` and `Pets: cat, turtle, dog.`
SimpleDescription ==
  <<[key |-> "Color", values |-> <<"orange", "blue", "green">>],
    [key |-> "Pet", values |-> <<"cat", "turtle", "dog">>]>>

\* The five clues of the simple puzzle: `Alice lives in house 3`, `House 1
\* is painted orange`, `The orange house contains the turtle`, `Mallory
\* lives in the blue house`, `The green house contains the dog`.
SimpleClues ==
  <<[form |-> "lives_in_house", name |-> "Alice", k |-> 3],
    [form |-> "house_is", k |-> 1, val |-> "orange"],
    [form |-> "contains", val_a |-> "orange", val_b |-> "turtle"],
    [form |-> "lives_in_the", name |-> "Mallory", val |-> "blue"],
    [form |-> "contains", val_a |-> "green", val_b |-> "dog"]>>

\* The clues of the variants: the five, and `The green house contains the
\* turtle`.
SimpleClueMenu ==
  SimpleClues \o <<[form |-> "contains", val_a |-> "green", val_b |-> "turtle"]>>

RECURSIVE PickSimpleClues(_)
\* The clues with index in I, in menu order.
PickSimpleClues(I) ==
  IF I = {} THEN <<>>
  ELSE LET m == CHOOSE i \in I : \A j \in I : i <= j
       IN <<SimpleClueMenu[m]>> \o PickSimpleClues(I \ {m})

\* The simple puzzle and its variants, each of size 3*2.
SimplePuzzles ==
  {[num_houses |-> 3, categories |-> SimpleDescription,
    clues |-> PickSimpleClues(I)] : I \in SUBSET DOMAIN SimpleClueMenu}

\* The simple puzzle itself.
SimplePuzzle ==
  [num_houses |-> 3, categories |-> SimpleDescription, clues |-> SimpleClues]

\* solve_puzzle(puzzle) is about to be called with a puzzle dictionary,
\* with a CSP instance built by hand (two variables that must differ), or
\* with a value that is neither.
InitSimple ==
  /\ \/ /\ puzzle \in {Some(p) : p \in SimplePuzzles}
        /\ call = Some([op |-> "solve_puzzle", arg |-> "dict"])
        /\ csp = None
        /\ heap = <<>>
     \/ /\ puzzle = None
        /\ call = Some([op |-> "solve_puzzle", arg |-> "CSP"])
        /\ csp = [variable_names |-> <<"X", "Y">>,
                  constraints |-> <<all_diff(<<"X", "Y">>)>>,
                  neighbors |-> [X |-> <<"Y">>, Y |-> <<"X">>]]
        /\ heap \in {<<d>> : d \in DomainMaps(<<"X", "Y">>)}
     \/ /\ puzzle = None
        /\ call = Some([op |-> "solve_puzzle", arg |-> "list"])
        /\ csp = None
        /\ heap = <<>>
  /\ stack = <<>>
  /\ pc = "solve_puzzle"
  /\ ac3 = Ac3Idle
  /\ tracer = None
  /\ result = EmptyAssignment
  /\ run = 1
  /\ first = None
  /\ raised = None

\* solve_puzzle, lines 19-26: the type dispatch, up to solver_core.solve.
SolvePuzzle ==
  /\ pc = "solve_puzzle"
  /\ CASE call[1].arg = "CSP" ->
            /\ pc' = "solve"
            /\ UNCHANGED <<csp, heap, raised>>
       [] call[1].arg = "dict" ->
            HandOver(BuildCSP(parse_puzzle(puzzle[1])), "raised")
       [] OTHER ->
            /\ raised' = Some("TypeError")
            /\ pc' = "raised"
            /\ UNCHANGED <<csp, heap>>
  /\ UNCHANGED <<stack, ac3, tracer, result, run, first, puzzle, call>>

NextSimple == SolvePuzzle \/ Next

\* solve_puzzle(puzzle)
SpecSimple == InitSimple /\ [][NextSimple]_vars

RECURSIVE Products(_, _)
\* The assignments of the first i variables, one value of its canonical
\* domain each.
Products(names, i) ==
  IF i = 0 THEN {EmptyAssignment}
  ELSE {Bind(a, names[i], x) : a \in Products(names, i - 1),
                               x \in heap[1][names[i]]}

\* The solutions the compiled puzzle admits.
Solutions ==
  {t \in Products(csp.variable_names, Len(csp.variable_names)) : Satisfies(t)}

\* House 1 is orange with the turtle, house 2 blue with Mallory and the
\* cat, house 3 green with Alice and the dog.
SimpleExpected ==
  /\ result[VarName(1, "Color")] = Interned("orange")
  /\ result[VarName(1, "Pet")] = Interned("turtle")
  /\ result[VarName(2, "Color")] = Interned("blue")
  /\ result[VarName(2, "Name")] = Interned("Mallory")
  /\ result[VarName(2, "Pet")] = Interned("cat")
  /\ result[VarName(3, "Color")] = Interned("green")
  /\ result[VarName(3, "Name")] = Interned("Alice")
  /\ result[VarName(3, "Pet")] = Interned("dog")

split_var(var_name) ==
  LET houses == MaxHouses + 2
      n == CHOOSE k \in 0..(Len(CategoryKeySeq) * houses - 1) :
              VarName(k % houses, CategoryKeySeq[(k \div houses) + 1]) = var_name
  IN <<n % houses, CategoryKeySeq[(n \div houses) + 1]>>

RECURSIVE sorted_attrs(_)
\* sorted(attributes)
sorted_attrs(S) ==
  IF S = {} THEN <<>>
  ELSE LET m == CHOOSE x \in S : \A y \in S \ {x} : SeqLess(Chars[x], Chars[y])
       IN <<m>> \o sorted_attrs(S \ {m})

\* The aliases table of _lookup.
aliases(attr) ==
  CASE attr = "Pet" -> <<"Animal">>
    [] attr = "Animal" -> <<"Pet">>
    [] attr = "Book" -> <<"BookGenre">>
    [] attr = "BookGenre" -> <<"Book">>
    [] attr = "Phone" -> <<"PhoneModel">>
    [] attr = "PhoneModel" -> <<"Phone">>
    [] OTHER -> <<>>

\* _lookup(house, attr)
_lookup(assignment, house, attr) ==
  IF VarName(house, attr) \in DOMAIN assignment
  THEN WordOf(assignment[VarName(house, attr)])
  ELSE LET alts == {i \in DOMAIN aliases(attr) :
                      VarName(house, aliases(attr)[i]) \in DOMAIN assignment}
       IN IF alts # {}
          THEN WordOf(assignment[VarName(house,
                 aliases(attr)[CHOOSE i \in alts : \A j \in alts : i <= j])])
          ELSE "___"

\* max(houses) if houses else 0
max_house(assignment) ==
  IF DOMAIN assignment = {} THEN 0
  ELSE CHOOSE h \in {split_var(v)[1] : v \in DOMAIN assignment} :
          \A v \in DOMAIN assignment : split_var(v)[1] <= h

\* reformat_to_grid(assignment, header=..., num_houses=...); header and
\* num_houses are None when not given.
reformat_to_grid(assignment, header, num_houses) ==
  LET attributes ==
        IF header # None /\ header[1] # <<>>
        THEN SubSeq(header[1], 2, Len(header[1]))
        ELSE sorted_attrs({split_var(v)[2] : v \in DOMAIN assignment})
      n == IF num_houses = None THEN max_house(assignment) ELSE num_houses[1]
  IN [header |-> <<"House">> \o attributes,
      rows |-> [h \in 1..n |->
                  <<ToString(h)>>
                  \o [k \in DOMAIN attributes |->
                        _lookup(assignment, h, attributes[k])]]]

\* The preferred attribute order of format_solution.
preferred ==
  <<"Name", "Nationality", "BookGenre", "Book", "Occupation", "PhoneModel",
    "Phone", "CarModel", "Sport", "Food", "Drink", "Color", "Pet", "Animal",
    "Music", "Height", "Child">>

\* The subsequence of s with elements in S.
Filter(s, S) == SelectSeq(s, LAMBDA a : a \in S)

\* format_solution, lines 151-177: the grid of a solution when there is no
\* template.
best_effort(solution) ==
  LET grid == reformat_to_grid(solution, None, None)
      attrs == Range(SubSeq(grid.header, 2, Len(grid.header)))
      ordered == Filter(preferred, attrs)
                 \o sorted_attrs(attrs \ Range(preferred))
  IN reformat_to_grid(solution, Some(<<"House">> \o ordered),
                      Some(Len(grid.rows)))

\* format_solution, lines 141-148: the grid made after a template.
from_template(solution, template) ==
  IF template.header # <<>> /\ Len(template.rows) > 0
  THEN reformat_to_grid(solution, Some(template.header),
                        Some(Len(template.rows)))
  ELSE [header |-> template.header, rows |-> template.rows]

\* format_solution(solution, puzzle, template, include_status=...): puzzle
\* and template are None when not given, a puzzle holds its "solution"
\* template or None, and include_status is None when not given (it then
\* has its default, False).
format_solution(solution, puzzle_json, template, include_status) ==
  LET with_status == IF include_status = None THEN FALSE ELSE include_status[1]
      tpl == IF template # None THEN template
             ELSE IF puzzle_json # None THEN puzzle_json[1].solution
             ELSE None
      grid == IF solution = EmptyAssignment /\ tpl = None
              THEN [header |-> <<>>, rows |-> <<>>]
              ELSE IF tpl # None THEN from_template(solution, tpl[1])
              ELSE best_effort(solution)
  IN [status |-> IF ~with_status THEN None
                 ELSE IF solution # EmptyAssignment THEN Some("solved")
                 ELSE Some("unsolved"),
      header |-> grid.header,
      rows |-> grid.rows]

\* A solution of two houses, as solve returns it for a puzzle with colors,
\* pets and names.
FullSolution ==
  [v \in {VarName(h, c) : h \in 1..2, c \in {"Color", "Pet", "Name"}} |->
     CASE v = VarName(1, "Color") -> Interned("red")
       [] v = VarName(2, "Color") -> Interned("blue")
       [] v = VarName(1, "Pet") -> Interned("dog")
       [] v = VarName(2, "Pet") -> Interned("cat")
       [] v = VarName(1, "Name") -> Interned("Bob")
       [] OTHER -> Interned("Alice")]

\* The solutions given to format_solution: the empty one, and the
\* assignments of some categories.
FormatSolutions ==
  {[v \in S |-> FullSolution[v]] : S \in SUBSET DOMAIN FullSolution}

\* The templates: none, an empty grid, and a grid of two houses with the
\* columns Color and Animal.
Templates ==
  {None,
   Some([header |-> <<>>, rows |-> <<>>]),
   Some([header |-> <<"House", "Color", "Animal">>,
         rows |-> <<<<"1", "___", "___">>, <<"2", "___", "___">>>>])}

\* format_solution is about to be called.
InitFormat ==
  /\ NoSolve
  /\ tracer = None
  /\ pc = "call"
  /\ call \in {Some([op |-> "format_solution", solution |-> sol,
                     puzzle |-> pz, template |-> tpl, include_status |-> st,
                     ret |-> None]) :
                sol \in FormatSolutions,
                pz \in {None} \cup {Some([solution |-> t]) : t \in Templates},
                tpl \in Templates, st \in {None, Some(FALSE), Some(TRUE)}}

\* format_solution(solution, puzzle, template, include_status=...)
FormatSolution ==
  /\ pc = "call"
  /\ call # None
  /\ call[1].op = "format_solution"
  /\ call' = Some([call[1] EXCEPT
                     !.ret = Some(format_solution(call[1].solution,
                                                  call[1].puzzle,
                                                  call[1].template,
                                                  call[1].include_status))])
  /\ pc' = "returned"
  /\ UNCHANGED <<csp, heap, stack, ac3, tracer, result, run, first, puzzle,
                 raised>>

SpecFormat == InitFormat /\ [][FormatSolution]_vars

\* format_solution has returned from a call with only a solution.
OnlySolutionFormatted ==
  /\ pc = "returned"
  /\ call[1].op = "format_solution"
  /\ call[1].puzzle = None
  /\ call[1].template = None
  /\ call[1].include_status = None

\* C25: format_solution called with only a solution returns a grid with
\* status `solved`, a header and rows for a non-empty solution, and with
\* status `unsolved`, an empty header and no rows for an empty solution.
C25_OnlySolutionGridCarriesStatus ==
  OnlySolutionFormatted =>
    IF call[1].solution # EmptyAssignment
    THEN /\ call[1].ret[1].status = Some("solved")
         /\ call[1].ret[1].header # <<>>
         /\ call[1].ret[1].rows # <<>>
    ELSE /\ call[1].ret[1].status = Some("unsolved")
         /\ call[1].ret[1].header = <<>>
         /\ call[1].ret[1].rows = <<>>

(***************************************************************************)
(* The frames of the search.                                               *)
(***************************************************************************)

\* C26: no step of the search changes the assignment or the domain map of
\* a _backtrack call that stays on the stack: whatever happens to one
\* candidate value (rejected, forward check failed, AC-3 failed, recursive
\* call returned None), the next candidate of the frame is tried against
\* the assignment and the domains the frame was entered with.
C26_FrameAssignmentAndDomainsKept ==
  [][\A i \in (DOMAIN stack) \cap (DOMAIN stack') :
        /\ stack'[i].assignment = stack[i].assignment
        /\ stack'[i].domains = stack[i].domains
        /\ stack[i].domains \in DOMAIN heap'
        /\ heap'[stack[i].domains] = heap[stack[i].domains]]_vars

\* A frame is about to try a later candidate after a recursive call under
\* an earlier candidate of it has returned None.
C26_Witness ==
  /\ pc = "loop"
  /\ stack # <<>>
  /\ Top.values # <<>>
  /\ Len(Top.values) < Cardinality(heap[Top.domains][Top.var])
  /\ \E k \in DOMAIN tracer[1].steps :
        /\ tracer[1].steps[k].action_type = "backtrack"
        /\ \E j \in 1..(k - 1) :
              /\ tracer[1].steps[j].action_type = "assign"
              /\ tracer[1].steps[j].variable = Some(Top.var)

(***************************************************************************)
(* The run loop of run.py.  The record of main holds its locals: the       *)
(* loaded puzzles, how many of them the loop has taken, puzzle_id (None    *)
(* while unbound) and the result rows.  A loaded puzzle is a dictionary    *)
(* with an id and a puzzle text, which load_puzzles passes on as it is in  *)
(* the file: a string, read here as its categories and clues, or a JSON    *)
(* number.                                                                 *)
(***************************************************************************)

\* A run loads at most MaxPuzzles puzzles.
MaxPuzzles == 3

\* Tracer.summary(), without the elapsed time.
summary(t) ==
  LET kinds == {t.steps[i].action_type : i \in DOMAIN t.steps}
      count(kind) == Cardinality({i \in DOMAIN t.steps :
                                    t.steps[i].action_type = kind})
  IN [total_steps |-> Len(t.steps),
      action_counts |-> [kind \in kinds |-> count(kind)],
      num_assignments |-> count("assign"),
      num_backtracks |-> count("backtrack")]

\* The ids of the puzzles of a file, by position.
PuzzleIds == <<"a", "b", "c">>

\* The puzzle texts: two houses with `Colors: red, blue` and the clue
\* `House 1 is painted red`; three houses with `Colors: red, blue`, which
\* have no solution; and the number 123.
PuzzleTexts ==
  {[type |-> "str", num_houses |-> 2,
    categories |-> <<[key |-> "Color", values |-> <<"red", "blue">>]>>,
    clues |-> <<[form |-> "house_is", k |-> 1, val |-> "red"]>>],
   [type |-> "str", num_houses |-> 3,
    categories |-> <<[key |-> "Color", values |-> <<"red", "blue">>]>>,
    clues |-> <<>>],
   [type |-> "int", num_houses |-> 0, categories |-> <<>>, clues |-> <<>>]}

\* The lists of puzzles load_puzzles returns: the records of a file, each
\* with its own id and without a "solution".
LoadedPuzzles ==
  UNION {{[k \in 1..n |->
             [id |-> Some(PuzzleIds[k]), solution |-> None, type |-> texts[k].type,
              num_houses |-> texts[k].num_houses,
              categories |-> texts[k].categories, clues |-> texts[k].clues]] :
            texts \in [1..n -> PuzzleTexts]} : n \in 1..MaxPuzzles}

\* main has loaded the puzzles and is about to enter its loop; no sample
\* submission was given, so templates is empty.
InitRun ==
  /\ call \in {Some([op |-> "main", puzzles |-> ps, include_status |-> st,
                     taken |-> 0, puzzle_id |-> None, results |-> <<>>]) :
                ps \in LoadedPuzzles, st \in BOOLEAN}
  /\ csp = None
  /\ heap = <<>>
  /\ stack = <<>>
  /\ pc = "main_loop"
  /\ ac3 = Ac3Idle
  /\ tracer = None
  /\ result = EmptyAssignment
  /\ run = 1
  /\ first = None
  /\ puzzle = None
  /\ raised = None

\* run.py, lines 212-214: the loop takes its next puzzle; reset_tracer(),
\* tracer = get_tracer().  The local tracer is the object the global name
\* holds from here on.
TakePuzzle ==
  /\ pc = "main_loop"
  /\ call[1].taken < Len(call[1].puzzles)
  /\ puzzle' = Some(call[1].puzzles[call[1].taken + 1])
  /\ call' = Some([call[1] EXCEPT !.taken = @ + 1])
  /\ tracer' = get_tracer(reset_tracer(tracer))
  /\ pc' = "try"
  /\ UNCHANGED <<csp, heap, stack, ac3, result, run, first, raised>>

\* run.py, line 217: solve_puzzle(puzzle), up to its call of
\* solver_core.solve.  parse_puzzle searches the puzzle text with re, which
\* raises TypeError for a text that is not a string; the exception leaves
\* the try block.
TrySolvePuzzle ==
  /\ pc = "try"
  /\ IF puzzle[1].type # "str"
     THEN /\ raised' = Some("TypeError")
          /\ pc' = "except"
          /\ UNCHANGED <<csp, heap>>
     ELSE HandOver(BuildCSP(parse_puzzle(puzzle[1])), "except")
  /\ UNCHANGED <<stack, ac3, tracer, result, run, first, puzzle, call>>

\* run.py, lines 218-233: solve_puzzle has returned; puzzle_id is bound,
\* the solution formatted, and the row of the puzzle appended.
AppendResult ==
  /\ pc = "done"
  /\ LET puzzle_id == IF puzzle[1].id = None THEN "unknown" ELSE puzzle[1].id[1]
         grid == format_solution(result, puzzle, None,
                                 Some(call[1].include_status))
         row == [id |-> puzzle_id, grid_solution |-> grid,
                 steps |-> summary(tracer[1]).num_assignments]
     IN call' = Some([call[1] EXCEPT !.puzzle_id = Some(puzzle_id),
                                     !.results = Append(@, row)])
  /\ pc' = "main_loop"
  /\ UNCHANGED <<csp, heap, stack, ac3, tracer, result, run, first, puzzle,
                 raised>>

\* run.py, lines 234-240: the handler appends a row with puzzle_id, which
\* line 218 has not bound for this puzzle.  Reading it while no earlier
\* puzzle has bound it raises UnboundLocalError, which ends main.
HandleException ==
  /\ pc = "except"
  /\ IF call[1].puzzle_id = None
     THEN /\ raised' = Some("UnboundLocalError")
          /\ pc' = "raised"
          /\ UNCHANGED call
     ELSE /\ call' = Some([call[1] EXCEPT !.results =
                 Append(@, [id |-> call[1].puzzle_id[1],
                            grid_solution |-> [status |-> None, header |-> <<>>,
                                               rows |-> <<>>],
                            steps |-> -1])])
          /\ raised' = None
          /\ pc' = "main_loop"
  /\ UNCHANGED <<csp, heap, stack, ac3, tracer, result, run, first, puzzle>>

\* run.py, lines 242-245: the loop is over and the results are put out.
PutResults ==
  /\ pc = "main_loop"
  /\ call[1].taken = Len(call[1].puzzles)
  /\ pc' = "exit"
  /\ UNCHANGED <<csp, heap, stack, ac3, tracer, result, run, first, puzzle,
                 raised, call>>

NextRun ==
  TakePuzzle \/ TrySolvePuzzle \/ AppendResult \/ HandleException
    \/ PutResults \/ Next

\* main, from its loop on
SpecRun == InitRun /\ [][NextRun]_vars

\* The locals of main.
Main == call[1]

\* The rows main made from a tracer summary.
SolvedRows == {k \in DOMAIN Main.results : Main.results[k].steps # -1}

\* C27: the tracer is reset per puzzle.  The get_tracer after reset_tracer
\* yields a tracer with no events and step counter 0; while the puzzle is
\* solved the global tracer stays that object, every event being appended
\* to it; the steps of the row are the assign events logged since the
\* reset, so that puzzles with the same text are reported with the same
\* steps wherever they stand in the list.
C27_TracerResetPerPuzzle ==
  [][/\ (pc = "main_loop" /\ pc' = "try") =>
          /\ tracer' # None
          /\ tracer'[1].steps = <<>>
          /\ tracer'[1].step_counter = 0
     /\ pc \in {"try", "solve", "ac3_call", "ac3_loop",
                "backtrack", "loop", "done"} =>
          /\ tracer # None
          /\ tracer' # None
          /\ Len(tracer[1].steps) <= Len(tracer'[1].steps)
          /\ SubSeq(tracer'[1].steps, 1, Len(tracer[1].steps)) = tracer[1].steps
     /\ (pc = "done" /\ pc' = "main_loop") =>
          /\ Len(call'[1].results) = Len(Main.results) + 1
          /\ call'[1].results[Len(call'[1].results)].steps
               = Cardinality(Events("assign"))
     /\ \A j, k \in SolvedRows :
          (\A f \in {"type", "num_houses", "categories", "clues"} :
              Main.puzzles[j][f] = Main.puzzles[k][f])
            => Main.results[j].steps = Main.results[k].steps]_vars

\* The row of a second puzzle is reported after the solve of an earlier
\* puzzle has logged assign events, and the solve of the second has too.
C27_Witness ==
  /\ pc = "main_loop"
  /\ Len(Main.results) >= 2
  /\ Main.results[1].steps > 0
  /\ Main.results[2].steps > 0

\* C30: every puzzle the loop has dealt with has exactly one row, with the
\* puzzle's own id; the row of a puzzle whose solve raised has an empty
\* grid and steps -1; and main is not ended by an exception.
C30_OneRowPerPuzzleWithOwnId ==
  /\ pc # "raised"
  /\ pc \in {"main_loop", "exit"} => Len(Main.results) = Main.taken
  /\ \A k \in DOMAIN Main.results :
        /\ Some(Main.results[k].id) = Main.puzzles[k].id
        /\ Main.puzzles[k].type # "str" =>
              /\ Main.results[k].grid_solution.header = <<>>
              /\ Main.results[k].grid_solution.rows = <<>>
              /\ Main.results[k].steps = -1

(***************************************************************************)
(* The trace of one solve.                                                 *)
(***************************************************************************)

\* The events a step appends to the trace.
Logged ==
  IF tracer' = None THEN <<>>
  ELSE SubSeq(tracer'[1].steps,
              (IF tracer = None THEN 0 ELSE Len(tracer[1].steps)) + 1,
              Len(tracer'[1].steps))

\* The step is taken by a frame of _backtrack that has no candidate left.
FrameExhausted == pc = "loop" /\ stack # <<>> /\ Top.values = <<>>

\* A solve that has returned did so with a non-empty assignment exactly
\* when its trace holds a solution_found event.
ReturnedIffSolutionFound ==
  pc = "done" => (result # EmptyAssignment <=> Events("solution_found") # {})

\* There is at most one solution_found event, and no event after it.
SolutionFoundOnceAndLast ==
  tracer # None => \A i \in Events("solution_found") : i = Len(tracer[1].steps)

\* A step logs backtrack(v) exactly when it is the step of a frame for v
\* that has tried all its candidates, none with a successful recursion;
\* it then logs that one event.
BacktrackLoggedOnExhaustion ==
  /\ FrameExhausted => Logged = <<[Logged[1] EXCEPT !.action_type = "backtrack",
                                                    !.variable = Some(Top.var)]>>
  /\ \A i \in DOMAIN Logged :
        Logged[i].action_type = "backtrack" => FrameExhausted

\* C28 as stated, for every CSP: solve returns a non-empty assignment
\* exactly when its trace contains a solution_found event, which occurs at
\* most once and is the last event; backtrack(v) is logged exactly when a
\* frame for v has exhausted its candidates.
C28_SolutionFoundIffNonEmpty ==
  /\ [](ReturnedIffSolutionFound /\ SolutionFoundOnceAndLast)
  /\ [][BacktrackLoggedOnExhaustion]_vars

\* C28, for CSPs with at least one variable: solve returns a non-empty
\* assignment exactly when its trace contains a solution_found event,
\* which occurs at most once and is the last event; backtrack(v) is logged
\* exactly when a frame for v has exhausted its candidates.
C28_SolutionFoundIffNonEmptyWithVariables ==
  /\ [](csp.variable_names # <<>> =>
          ReturnedIffSolutionFound /\ SolutionFoundOnceAndLast)
  /\ [][BacktrackLoggedOnExhaustion]_vars

\* A solve of a CSP with variables has returned a solution after a frame
\* of it was exhausted.
C28_Witness ==
  /\ pc = "done"
  /\ csp.variable_names # <<>>
  /\ result # EmptyAssignment
  /\ Events("backtrack") # {}
  /\ Events("solution_found") = {Len(tracer[1].steps)}

(***************************************************************************)
(* The entry of the recursive search.                                      *)
(***************************************************************************)

\* Every constraint's scope lists the variable its predicate reads.
ScopesListReads ==
  \A i \in DOMAIN csp.constraints :
     csp.constraints[i].var # "" =>
        csp.constraints[i].var \in Range(csp.constraints[i].scope)

\* _backtrack is entered: its frame is on the stack and nothing of its body
\* has run.
SearchEntered == pc = "backtrack" /\ stack # <<>>

\* C29: when every constraint's scope lists the variables its predicate
\* reads, the partial assignment _backtrack is entered with satisfies all
\* constraints of the CSP, and the working domain of every assigned
\* variable is the singleton of its value.
C29_EntryAssignmentConsistentAndSingleton ==
  (SearchEntered /\ ScopesListReads) =>
    /\ is_consistent(csp, Top.assignment)
    /\ \A v \in DOMAIN Top.assignment :
          heap[Top.domains][v] = {Top.assignment[v]}

\* _backtrack is entered with two variables assigned, under constraints
\* that are all scoped.
C29_Witness ==
  /\ SearchEntered
  /\ ScopesListReads
  /\ csp.constraints # <<>>
  /\ Cardinality(DOMAIN Top.assignment) >= 2

====
